---- MODULE Spec2Model ----
(***************************************************************************)
(* Verification model of the Ohio legal-corpus ingest pipeline:            *)
(*   - CitationMapper (ohio_revised/citation_analysis/citation_mapper.py):  *)
(*     build_citation_mapping, _signal_handler, _save_state,               *)
(*     analyze_citation_patterns, _build_reference_chain, save_results;    *)
(*   - ComprehensiveLMDBBuilder for the administrative code and the        *)
(*     constitution (lmdb/build_comprehensive_lmdb.py);                    *)
(*   - ComprehensiveLMDBBuilder for case law                               *)
(*     (ohio_caselaw/lmdb/build_comprehensive_lmdb_new.py);                *)
(*   - LegalChainRetriever.get_chain (archive/legal_chain_retriever.py).   *)
(*                                                                         *)
(* Section ids are modelled as positive integers (their order stands for   *)
(* Python's string order used by sorted()).  LMDB keys are records         *)
(* [kind, n]: a section number s encodes to [kind |-> "section", n |-> s]; *)
(* the string "complex_<i>" encodes to [kind |-> "complex", n |-> i].      *)
(* A Python dict is a function whose DOMAIN is its key set; a dict whose   *)
(* iteration order matters carries its keys in ascending id order (the     *)
(* order of the corpus file).  A set that the code turns into a list is a  *)
(* sequence of distinct ids in ascending order.                            *)
(***************************************************************************)
EXTENDS Integers, Sequences, FiniteSets, TLC

VARIABLES
    pc,                   \* position of the program that this behaviour runs
    probe,                \* what the last call made by a caller returned
    \* ---- CitationMapper (run_analysis) ----
    citation_map,         \* the map returned by build_citation_mapping
    visited_global,       \* analyze_citation_patterns: visited_global
    complex_chains,       \* CitationAnalysis.complex_chains
    simple_pairs,         \* CitationAnalysis.simple_pairs
    \* ---- files between the mapper and the builder ----
    citation_map_file,    \* citation_analysis/citation_map.json
    complex_chains_file,  \* citation_analysis/complex_chains.jsonl
    citation_contexts_file, \* citation_analysis/citation_contexts.jsonl
    corpus_file,          \* the corpus .jsonl, one document per line
    \* ---- ComprehensiveLMDBBuilder (administrative code / constitution) ----
    builder,              \* which of the two builders runs
    enable_enrichment,    \* self.enable_enrichment
    b_citation_map,       \* self.citation_map
    reverse_citation_map, \* self.reverse_citation_map (administrative code only)
    chains_map,           \* self.chains_map
    citation_contexts_map,\* self.citation_contexts_map (administrative code only)
    sections_data,        \* self.sections_data
    counts,               \* the counts build_all passes to build_metadata_database
    primary_db,           \* primary.lmdb
    citations_db,         \* citations.lmdb
    reverse_citations_db, \* reverse_citations.lmdb
    chains_db,            \* chains.lmdb
    metadata_db,          \* metadata.lmdb
    \* ---- CitationMapper.build_citation_mapping, one process after another ----
    input_file,           \* the corpus .jsonl that the mapper reads
    line_num,             \* enumerate(f, 1): the line the loop is at
    section_count,        \* build_citation_mapping: section_count
    last_processed_line,  \* self.last_processed_line
    shutdown_requested,   \* self.shutdown_requested
    state_file,           \* citation_analysis/citation_state.json
    \* ---- ComprehensiveLMDBBuilder (case law), one process after another ----
    case_corpus,          \* ohio_case_law_complete.jsonl
    line_pos,             \* _read_cases_in_batches: lines the generator has consumed
    batch,                \* the batch the generator yielded last
    batch_idx,            \* position of `for case in batch`
    txn_buf,              \* puts of the open write transaction on primary.lmdb
    cases_data,           \* self.cases_data
    batch_citation_map,   \* self.citation_map
    progress,             \* self.progress
    processed_case_ids,   \* self.processed_case_ids
    progress_file,        \* build_progress.pkl
    \* ---- LegalChainRetriever ----
    reader_pc,            \* position of a caller inside get_complete_context
    reader_section,       \* section_number of the call
    context,              \* the bundle composed so far, and the value returned
    \* ---- a program and its progress file on disk ----
    program,              \* "caselaw" builder, "mapper" or PDF "converter"
    disk,                 \* the progress file, its .backup and its .tmp
    ck_pc,                \* position of the program around its checkpoint
    total_processed,      \* the progress held in memory
    \* ---- RobustEnricher (question-answer enrichment), one process after another ----
    enricher_pc,          \* position of the process: off, loop, processed, handler
    enricher_input,       \* self.input_file, one document per line
    enricher_state,       \* self.state
    buffer,               \* self.buffer
    processing_state_file,\* enriched_output/processing_state.json
    training_qa_file,     \* enriched_output/training_qa_<date>.jsonl
    \* ---- the environment ----
    interrupts            \* signals delivered so far

mapperVars == <<citation_map, visited_global, complex_chains, simple_pairs>>
fileVars == <<citation_map_file, complex_chains_file, citation_contexts_file, corpus_file>>
memVars == <<b_citation_map, reverse_citation_map, chains_map, citation_contexts_map,
             sections_data, counts>>
dbVars == <<primary_db, citations_db, reverse_citations_db, chains_db, metadata_db>>

runVars == <<input_file, line_num, section_count, last_processed_line,
             shutdown_requested, state_file>>
caseVars == <<case_corpus, line_pos, batch, batch_idx, txn_buf, cases_data,
              batch_citation_map, progress, processed_case_ids, progress_file>>

readerVars == <<reader_pc, reader_section, context>>
ckptVars == <<program, disk, ck_pc, total_processed>>
enricherVars == <<enricher_pc, enricher_input, enricher_state, buffer, processing_state_file,
                  training_qa_file>>

vars == <<pc, probe, mapperVars, fileVars, builder, enable_enrichment, memVars, dbVars,
          runVars, caseVars, readerVars, ckptVars, enricherVars, interrupts>>

----------------------------------------------------------------------------
(* Bounds of the model *)

NumSections == 3        \* sections of a generated corpus for the mapper: ids 1..NumSections
MaxEdges == 3           \* citations in a generated citation map
NumBuildSections == 2   \* section ids of a generated builder input
MaxBuildEdges == 2      \* citations in a generated citation_map.json
NumLines == 3           \* lines of a corpus that build_citation_mapping reads
checkpoint_interval == 2 \* self.checkpoint_interval, scaled down from 1000 lines
MaxInterrupts == 1      \* signals delivered in one behaviour
MaxIngestLines == 3
MaxWordCount == 1002    \* word counts 0..MaxWordCount
MaxParagraphCount == 17 \* paragraph counts 0..MaxParagraphCount
MaxCitationCount == 12  \* citation counts 0..MaxCitationCount
NumQuerySections == 3   \* sections of a store that is queried: ids 1..NumQuerySections
MaxQueryEdges == 3      \* citations in the citation map of that store
MaxLimit == 3           \* limit and max_related arguments 0..MaxLimit
NumDocuments == 4       \* lines of the input file of the enricher, and hashes 1..NumDocuments
buffer_size == 2        \* RobustEnricher.buffer_size, scaled down from 5
enricher_checkpoint_interval == 4 \* RobustEnricher.checkpoint_interval, scaled down from 10
MaxProcessed == 2       \* items a program processes before it has nothing left
MaxKills == 2           \* kills of a program during one behaviour
NumCases == 4           \* lines of a case-law corpus
BATCH_SIZE == 2         \* ComprehensiveLMDBBuilder.BATCH_SIZE, scaled down from 5000
CHECKPOINT_INTERVAL == 4 \* ComprehensiveLMDBBuilder.CHECKPOINT_INTERVAL, scaled down from 10000

(* Program constants *)

DefaultMaxSize == 8     \* _build_reference_chain(max_size=8)
ExpansionLimit == 3     \* list(refs)[:3]
ComplexThreshold == 4   \* len(chain) >= 4
SimpleThreshold == 2    \* len(chain) >= 2
ContextLimit == 100     \* enhanced_info.get('context', '')[:100]

----------------------------------------------------------------------------
(* Generic helpers *)

Corpus == 1..NumSections
DanglingId == NumSections + 1          \* an id cited but never in the corpus
Targets == Corpus \cup {DanglingId}

NoValue == [kind |-> "none", n |-> 0]  \* Python None

Range(seq) == {seq[i] : i \in 1..Len(seq)}

Take(seq, k) == SubSeq(seq, 1, IF Len(seq) < k THEN Len(seq) ELSE k)

NoDuplicates(seq) == \A i, j \in 1..Len(seq) : i # j => seq[i] # seq[j]

RECURSIVE SortedSeq(_)
(* sorted(list(S)) *)
SortedSeq(S) ==
    IF S = {} THEN <<>>
    ELSE LET m == CHOOSE x \in S : \A y \in S : x <= y
         IN <<m>> \o SortedSeq(S \ {m})

RECURSIVE SubsetsUpTo(_, _)
(* the subsets of S with at most k elements *)
SubsetsUpTo(S, k) ==
    IF k = 0 \/ S = {} THEN {{}}
    ELSE LET x == CHOOSE x \in S : TRUE
         IN SubsetsUpTo(S \ {x}, k) \cup {T \cup {x} : T \in SubsetsUpTo(S \ {x}, k - 1)}

(* dict.get(key, default) *)
DictGet(d, key, default) == IF key \in DOMAIN d THEN d[key] ELSE default

(* The citation map of a corpus with the citation edges E: every section of
   the corpus is a key (build_citation_mapping stores an entry for every
   section, also when it has no references). *)
MapOfEdges(E) == [s \in Corpus |-> SortedSeq({t \in Targets : <<s, t>> \in E})]

GeneratedMaps == {MapOfEdges(E) : E \in SubsetsUpTo(Corpus \X Targets, MaxEdges)}

(* Scenario 4 of the specification, with A..I as 1..9 *)
ScenarioMap ==
    [s \in 1..9 |->
        CASE s = 1 -> <<2, 3>>
          [] s = 2 -> <<4, 5>>
          [] s = 3 -> <<6>>
          [] s = 4 -> <<7, 8>>
          [] s = 6 -> <<9>>
          [] OTHER -> <<>>]

(* A section that cites itself and more than ExpansionLimit sections, inside
   a citation cycle *)
HubMap ==
    [s \in 1..5 |->
        CASE s = 1 -> <<1, 2, 3, 4, 5>>
          [] s = 2 -> <<1, 3>>
          [] s = 3 -> <<1>>
          [] OTHER -> <<>>]

(* Four sections citing each other in a ring *)
RingMap == [s \in 1..4 |-> <<(s % 4) + 1>>]

InputMaps == GeneratedMaps \cup {ScenarioMap, HubMap, RingMap}

----------------------------------------------------------------------------
(* CitationMapper._build_reference_chain *)

(* while queue and len(chain) < max_size *)
LoopContinues(chain, queue, max_size) == queue # <<>> /\ Len(chain) < max_size

SkipCurrentNever(current, visited) == FALSE

(* if current in visited: continue *)
SkipCurrent(current, visited) == current \in visited

ExpansionFilterFirst(cmap, current, visited) ==
    Take(SelectSeq(DictGet(cmap, current, <<>>),
                   LAMBDA ref : ref \notin visited /\ ref \in DOMAIN cmap),
         ExpansionLimit)

(* for ref in list(refs)[:3]: if ref not in visited and ref in citation_map:
       queue.append(ref) *)
Expansion(cmap, current, visited) ==
    SelectSeq(Take(DictGet(cmap, current, <<>>), ExpansionLimit),
              LAMBDA ref : ref \notin visited /\ ref \in DOMAIN cmap)

RECURSIVE ChainLoop(_, _, _, _, _)
ChainLoop(cmap, max_size, chain, visited, queue) ==
    IF ~LoopContinues(chain, queue, max_size) THEN chain
    ELSE LET current == Head(queue)
             rest == Tail(queue)
         IN IF SkipCurrent(current, visited)
            THEN ChainLoop(cmap, max_size, chain, visited, rest)
            ELSE LET visited2 == visited \cup {current}
                 IN ChainLoop(cmap, max_size, Append(chain, current), visited2,
                              rest \o Expansion(cmap, current, visited2))

_build_reference_chain(start_section, cmap, max_size) ==
    ChainLoop(cmap, max_size, <<>>, {}, <<start_section>>)

----------------------------------------------------------------------------
(* CitationMapper.analyze_citation_patterns: the chain-building loop *)

(* if section not in visited_global and refs *)
BuildsChainFor(section, refs, visited) == section \notin visited /\ refs # <<>>

IsComplexOffByOne(chain) == Len(chain) >= ComplexThreshold - 1

(* if len(chain) >= 4 *)
IsComplex(chain) == Len(chain) >= ComplexThreshold

(* elif len(chain) >= 2 *)
IsSimple(chain) == ~IsComplex(chain) /\ Len(chain) >= SimpleThreshold

AnalyzeSection(st, section, cmap) ==
    IF BuildsChainFor(section, cmap[section], st.visited_global)
    THEN LET chain == _build_reference_chain(section, cmap, DefaultMaxSize)
         IN [visited_global |-> st.visited_global \cup Range(chain),
             complex_chains |-> IF IsComplex(chain) THEN Append(st.complex_chains, chain)
                                ELSE st.complex_chains,
             simple_pairs |-> IF IsSimple(chain) THEN Append(st.simple_pairs, chain)
                              ELSE st.simple_pairs]
    ELSE st

RECURSIVE AnalyzeLoop(_, _, _)
(* for section, refs in citation_map.items() *)
AnalyzeLoop(st, keys, cmap) ==
    IF keys = <<>> THEN st
    ELSE AnalyzeLoop(AnalyzeSection(st, Head(keys), cmap), Tail(keys), cmap)

analyze_citation_patterns(cmap) ==
    AnalyzeLoop([visited_global |-> {}, complex_chains |-> <<>>, simple_pairs |-> <<>>],
                SortedSeq(DOMAIN cmap), cmap)

----------------------------------------------------------------------------
(* CitationMapper.save_results *)

SectionKey(s) == [kind |-> "section", n |-> s]      \* section_num.encode()
ComplexKey(i) == [kind |-> "complex", n |-> i]      \* f"complex_{i}"

(* "chain_id": f"complex_{i}" for i, chain in enumerate(complex_chains) *)
ChainIdOf(i, chain) == ComplexKey(i)

ChainDataLastAsPrimary(i, chain) ==
    [chain_id |-> ChainIdOf(i, chain),
     primary_section |-> chain[Len(chain)],
     chain_sections |-> chain,
     estimated_complexity |-> Len(chain)]

ChainData(i, chain) ==
    [chain_id |-> ChainIdOf(i, chain),
     primary_section |-> chain[1],
     chain_sections |-> chain,
     estimated_complexity |-> Len(chain)]

ComplexChainsLines(chains) == [j \in 1..Len(chains) |-> ChainData(j - 1, chains[j])]

NoFile == [exists |-> FALSE, content |-> <<>>]
FileOf(content) == [exists |-> TRUE, content |-> content]

----------------------------------------------------------------------------
(* Documents of the corpus file.  A text is a sequence of word tokens; the
   empty string is <<>>.  A header is the record of its parts: the section
   number before the pipe, whether the pipe is there, and the title after it. *)

ParagraphsOf(s) ==
    CASE s = 1 -> <<>>
      [] s = 2 -> << <<1, 2, 3>> >>
      [] OTHER -> << <<1>>, <<2, 3>> >>

Doc(s, pipe) ==
    [json |-> TRUE,
     header |-> [num |-> s, has_pipe |-> pipe, title |-> IF pipe THEN <<s>> ELSE <<>>],
     url |-> <<s, s>>,
     url_hash |-> <<s>>,
     paragraphs |-> ParagraphsOf(s)]

(* a line that json.loads rejects *)
MalformedDoc ==
    [json |-> FALSE,
     header |-> [num |-> 0, has_pipe |-> FALSE, title |-> <<>>],
     url |-> <<>>,
     url_hash |-> <<>>,
     paragraphs |-> <<>>]

RECURSIVE SumLen(_)
(* sum(len(p.split()) for p in paragraphs) *)
SumLen(paragraphs) ==
    IF paragraphs = <<>> THEN 0 ELSE Len(Head(paragraphs)) + SumLen(Tail(paragraphs))

NewLine == 0
RECURSIVE JoinLines(_)
(* '\n'.join(paragraphs) *)
JoinLines(paragraphs) ==
    IF paragraphs = <<>> THEN <<>>
    ELSE IF Len(paragraphs) = 1 THEN Head(paragraphs)
    ELSE Head(paragraphs) \o <<NewLine>> \o JoinLines(Tail(paragraphs))

----------------------------------------------------------------------------
(* ComprehensiveLMDBBuilder.load_citation_data *)

(* for section, references in self.citation_map.items(): for ref in references:
       self.reverse_citation_map[ref].add(section) *)
LoadReverseCitationMap(cmap) ==
    [ref \in UNION {Range(cmap[s]) : s \in DOMAIN cmap} |->
        {s \in DOMAIN cmap : ref \in Range(cmap[s])}]

(* self.chains_map[chain['chain_id']] = chain, a later line replacing an earlier one *)
LoadChainsMap(lines) ==
    [cid \in {lines[j].chain_id : j \in 1..Len(lines)} |->
        lines[CHOOSE j \in 1..Len(lines) :
                /\ lines[j].chain_id = cid
                /\ \A k \in 1..Len(lines) : lines[k].chain_id = cid => k <= j]]

(* self.citation_contexts_map[context_record['source_section']] = context_record['citations'] *)
LoadContextsMap(lines) ==
    [src \in {lines[j].source_section : j \in 1..Len(lines)} |->
        lines[CHOOSE j \in 1..Len(lines) :
                /\ lines[j].source_section = src
                /\ \A k \in 1..Len(lines) : lines[k].source_section = src => k <= j].citations]

----------------------------------------------------------------------------
(* AutoEnricher for statutes.  Of the enrichment record the summary and the
   complexity are modelled; the classification fields are computed from
   copies of the text and are left out.  In a title the word tokens 1, 2 and
   3 stand for 'definitions', 'penalty' and 'procedure'. *)

DefinitionWords == {1}
PenaltyWords == {2}
ProcedureWords == {3}

(* _generate_summary: the whole header when it has no pipe, else a phrase
   chosen by the words of the title *)
_generate_summary(header) ==
    IF ~header.has_pipe THEN [prefix |-> "", text |-> header]
    ELSE [prefix |-> IF Range(header.title) \cap DefinitionWords # {} THEN "Defines"
                     ELSE IF Range(header.title) \cap PenaltyWords # {}
                     THEN "Establishes penalties for"
                     ELSE IF Range(header.title) \cap ProcedureWords # {}
                     THEN "Describes procedure for"
                     ELSE "Relates to",
          text |-> header.title]

(* the word count factor *)
WordFactor(word_count) ==
    IF word_count > 1000 THEN 2
    ELSE IF word_count > 500 THEN 1
    ELSE IF word_count < 100 THEN -1
    ELSE 0

(* the paragraph factor *)
ParagraphFactor(paragraph_count) ==
    IF paragraph_count > 15 THEN 2
    ELSE IF paragraph_count > 10 THEN 1
    ELSE 0

(* the citation factor *)
CitationFactor(citation_count) ==
    IF citation_count > 10 THEN 2
    ELSE IF citation_count > 5 THEN 1
    ELSE IF citation_count = 0 THEN -1
    ELSE 0

Max(a, b) == IF a > b THEN a ELSE b

ClampNoCeiling(score) == Max(1, score)

(* max(1, min(10, score)) *)
Clamp(score) == Max(1, IF score > 10 THEN 10 ELSE score)

(* _calculate_complexity *)
_calculate_complexity(word_count, paragraph_count, citation_count) ==
    Clamp(5 + WordFactor(word_count) + ParagraphFactor(paragraph_count)
            + CitationFactor(citation_count))

(* the constitutional AutoEnricher: in a title the word tokens 1, 2 and 3
   stand for 'rights', 'power' and 'procedure' *)
ConstitutionSummary(header) ==
    IF ~header.has_pipe THEN [prefix |-> "", text |-> header]
    ELSE [prefix |-> IF 1 \in Range(header.title) THEN "Guarantees"
                     ELSE IF 2 \in Range(header.title) THEN "Establishes"
                     ELSE IF 3 \in Range(header.title) THEN "Governs"
                     ELSE "Addresses",
          text |-> header.title]

ConstitutionComplexity(word_count, paragraph_count, citation_count) ==
    Clamp(5 + (IF word_count > 800 THEN 2 ELSE IF word_count > 400 THEN 1
               ELSE IF word_count < 100 THEN -1 ELSE 0)
            + (IF paragraph_count > 10 THEN 2 ELSE IF paragraph_count > 5 THEN 1 ELSE 0)
            + (IF citation_count > 5 THEN 2 ELSE IF citation_count > 2 THEN 1
               ELSE IF citation_count = 0 THEN -1 ELSE 0))

(* section_data[name] = value *)
WithField(section_data, name, value) ==
    [f \in DOMAIN section_data \cup {name} |->
        IF f = name THEN value ELSE section_data[f]]

enrich_section_dropping(section_data, citation_count) ==
    WithField(WithField(section_data, "paragraphs",
                        SubSeq(section_data.paragraphs, 2, Len(section_data.paragraphs))),
              "enrichment",
              [summary |-> _generate_summary(section_data.header),
               complexity |-> _calculate_complexity(section_data.word_count,
                                                    section_data.paragraph_count,
                                                    citation_count)])

(* enrich_section of the constitutional AutoEnricher *)
ConstitutionEnrichSection(section_data, citation_count) ==
    WithField(section_data, "enrichment",
              [summary |-> ConstitutionSummary(section_data.header),
               complexity |-> ConstitutionComplexity(section_data.word_count,
                                                     section_data.paragraph_count,
                                                     citation_count)])

(* enrich_section: section_data['enrichment'] = enrichment.to_dict() *)
enrich_section(section_data, citation_count) ==
    WithField(section_data, "enrichment",
              [summary |-> _generate_summary(section_data.header),
               complexity |-> _calculate_complexity(section_data.word_count,
                                                    section_data.paragraph_count,
                                                    citation_count)])

----------------------------------------------------------------------------
(* ComprehensiveLMDBBuilder.build_sections_database *)

(* if '|' not in header: continue *)
SkipsLine(doc) == ~doc.header.has_pipe

(* has_forward_citations = section_num in self.citation_map *)
HasForwardCitations(section_num, cmap) == section_num \in DOMAIN cmap

(* has_reverse_citations = section_num in self.reverse_citation_map *)
HasReverseCitations(section_num, rmap) == section_num \in DOMAIN rmap

(* is_clickable = has_forward_citations or has_reverse_citations *)
IsClickable(section_num, cmap, rmap) ==
    HasForwardCitations(section_num, cmap) \/ HasReverseCitations(section_num, rmap)

CommonSectionData(doc, cmap, chmap) ==
    [section_number |-> doc.header.num,
     url |-> doc.url,
     url_hash |-> doc.url_hash,
     header |-> doc.header,
     section_title |-> doc.header.title,
     paragraphs |-> doc.paragraphs,
     full_text |-> JoinLines(doc.paragraphs),
     word_count |-> SumLen(doc.paragraphs),
     paragraph_count |-> Len(doc.paragraphs),
     has_citations |-> HasForwardCitations(doc.header.num, cmap),
     citation_count |-> Len(DictGet(cmap, doc.header.num, <<>>)),
     in_complex_chain |-> SectionKey(doc.header.num) \in DOMAIN chmap]

BuilderSectionData(b, doc, cmap, rmap, chmap) ==
    IF b = "admin"
    THEN [f \in DOMAIN CommonSectionData(doc, cmap, chmap) \cup {"is_clickable"} |->
            IF f = "is_clickable" THEN IsClickable(doc.header.num, cmap, rmap)
            ELSE CommonSectionData(doc, cmap, chmap)[f]]
    ELSE CommonSectionData(doc, cmap, chmap)

(* if self.enable_enrichment and self.enricher: section_data = enrich_section(...) *)
SectionData(b, doc, cmap, rmap, chmap) ==
    IF enable_enrichment
    THEN IF b = "admin"
         THEN enrich_section(BuilderSectionData(b, doc, cmap, rmap, chmap),
                             Len(DictGet(cmap, doc.header.num, <<>>)))
         ELSE ConstitutionEnrichSection(BuilderSectionData(b, doc, cmap, rmap, chmap),
                                        Len(DictGet(cmap, doc.header.num, <<>>)))
    ELSE BuilderSectionData(b, doc, cmap, rmap, chmap)

(* doc = json.loads(line) raises on some line of the file *)
SectionsRaises(file) == \E i \in 1..Len(file) : ~file[i].json

(* the lines that the loop reads before json.loads raises *)
ParsedPrefix(file) ==
    IF SectionsRaises(file)
    THEN SubSeq(file, 1, (CHOOSE i \in 1..Len(file) :
                             ~file[i].json /\ \A k \in 1..(i - 1) : file[k].json) - 1)
    ELSE file

(* the documents of the corpus file that the loop stores *)
StoredLines(file) == SelectSeq(ParsedPrefix(file), LAMBDA doc : ~SkipsLine(doc))

(* self.sections_data[section_num] = section_data; txn.put(key, value):
   the last stored line of a section number stays *)
SectionsOf(b, file, cmap, rmap, chmap) ==
    LET lines == StoredLines(file)
    IN [s \in {lines[j].header.num : j \in 1..Len(lines)} |->
          SectionData(b,
                      lines[CHOOSE j \in 1..Len(lines) :
                              /\ lines[j].header.num = s
                              /\ \A k \in 1..Len(lines) : lines[k].header.num = s => k <= j],
                      cmap, rmap, chmap)]

----------------------------------------------------------------------------
(* ComprehensiveLMDBBuilder.build_citations_database *)

(* enhanced_map[citation['target']] = citation, a later citation replacing an earlier one *)
EnhancedMap(enhanced_citations) ==
    [target \in {enhanced_citations[j].target : j \in 1..Len(enhanced_citations)} |->
        enhanced_citations[CHOOSE j \in 1..Len(enhanced_citations) :
            /\ enhanced_citations[j].target = target
            /\ \A k \in 1..Len(enhanced_citations) :
                  enhanced_citations[k].target = target => k <= j]]

(* administrative code: one detail row for every reference *)
ReferenceDetail(ref, enhanced_map, sdata) ==
    [section |-> ref,
     title |-> IF ref \in DOMAIN sdata THEN sdata[ref].section_title ELSE <<>>,
     url |-> IF ref \in DOMAIN sdata THEN sdata[ref].url ELSE <<>>,
     url_hash |-> IF ref \in DOMAIN sdata THEN sdata[ref].url_hash ELSE <<>>,
     relationship |-> IF ref \in DOMAIN enhanced_map THEN enhanced_map[ref].relationship
                      ELSE "cross_reference",
     context |-> IF ref \in DOMAIN enhanced_map
                 THEN Take(enhanced_map[ref].context, ContextLimit) ELSE <<>>,
     position |-> IF ref \in DOMAIN enhanced_map THEN enhanced_map[ref].position ELSE 0]

AdminReferencesDetails(references, enhanced_map, sdata) ==
    [i \in 1..Len(references) |-> ReferenceDetail(references[i], enhanced_map, sdata)]

(* constitution: if ref in self.sections_data: references_details.append({...}) *)
ConstitutionReferencesDetails(references, sdata) ==
    LET known == SelectSeq(references, LAMBDA ref : ref \in DOMAIN sdata)
    IN [i \in 1..Len(known) |->
          [section |-> known[i],
           title |-> sdata[known[i]].section_title,
           url |-> sdata[known[i]].url,
           url_hash |-> sdata[known[i]].url_hash]]

CitationData(b, section_num, references, ctxmap, sdata) ==
    [section |-> section_num,
     direct_references |-> references,
     reference_count |-> Len(references),
     references_details |->
        IF b = "admin"
        THEN AdminReferencesDetails(references,
                                    EnhancedMap(DictGet(ctxmap, section_num, <<>>)), sdata)
        ELSE ConstitutionReferencesDetails(references, sdata)]

CitationsOf(b, cmap, ctxmap, sdata) ==
    [s \in DOMAIN cmap |-> CitationData(b, s, cmap[s], ctxmap, sdata)]

----------------------------------------------------------------------------
(* ComprehensiveLMDBBuilder.build_reverse_citations_database *)

BuildReverseMapNoSelf(cmap) ==
    [ref \in UNION {Range(cmap[s]) \ {s} : s \in DOMAIN cmap} |->
        {s \in DOMAIN cmap : ref \in Range(cmap[s]) /\ s # ref}]

(* for section, references in self.citation_map.items(): for ref in references:
       reverse_map[ref].add(section) *)
BuildReverseMap(cmap) ==
    [ref \in UNION {Range(cmap[s]) : s \in DOMAIN cmap} |->
        {s \in DOMAIN cmap : ref \in Range(cmap[s])}]

CitingDetails(citing_sorted, sdata) ==
    LET known == SelectSeq(citing_sorted, LAMBDA citing : citing \in DOMAIN sdata)
    IN [i \in 1..Len(known) |->
          [section |-> known[i],
           title |-> sdata[known[i]].section_title,
           url |-> sdata[known[i]].url]]

ReverseData(section_num, citing_sections, sdata) ==
    [section |-> section_num,
     cited_by |-> SortedSeq(citing_sections),
     cited_by_count |-> Cardinality(citing_sections),
     citing_details |-> CitingDetails(SortedSeq(citing_sections), sdata)]

ReverseCitationsOf(cmap, sdata) ==
    LET reverse_map == BuildReverseMap(cmap)
    IN [t \in DOMAIN reverse_map |-> ReverseData(t, reverse_map[t], sdata)]

----------------------------------------------------------------------------
(* ComprehensiveLMDBBuilder.build_chains_database *)

CompleteChain(chain_sections, sdata) ==
    LET known == SelectSeq(chain_sections, LAMBDA section : section \in DOMAIN sdata)
    IN [i \in 1..Len(known) |->
          [section |-> known[i],
           title |-> sdata[known[i]].section_title,
           url |-> sdata[known[i]].url,
           url_hash |-> sdata[known[i]].url_hash,
           full_text |-> sdata[known[i]].full_text,
           word_count |-> sdata[known[i]].word_count]]

(* constitution: chain_data['chain_depth'] and chain_data['references_count'] are
   read with [], and raise KeyError on a chain record without them *)
BuildChainsRaises(b, chmap) ==
    /\ b = "constitution"
    /\ \E cid \in DOMAIN chmap :
          ~({"chain_depth", "references_count"} \subseteq DOMAIN chmap[cid])

EnhancedChain(b, chain_id, chain_data, sdata) ==
    [chain_id |-> chain_id,
     primary_section |-> chain_data.primary_section,
     chain_sections |-> chain_data.chain_sections,
     chain_depth |-> IF b = "admin"
                     THEN (IF "estimated_complexity" \in DOMAIN chain_data
                           THEN chain_data.estimated_complexity
                           ELSE Len(chain_data.chain_sections))
                     ELSE chain_data.chain_depth,
     references_count |-> IF b = "admin" THEN Len(chain_data.chain_sections)
                          ELSE chain_data.references_count,
     complete_chain |-> CompleteChain(chain_data.chain_sections, sdata)]

(* key = chain_id.encode() *)
ChainsOf(b, chmap, sdata) ==
    [chain_id \in DOMAIN chmap |-> EnhancedChain(b, chain_id, chmap[chain_id], sdata)]

----------------------------------------------------------------------------
(* ComprehensiveLMDBBuilder.build_metadata_database, calculate_inbound_counts *)

CorpusInfoKey == [kind |-> "corpus_info", n |-> 0]          \* b'corpus_info'
SectionMetaKey(s) == [kind |-> "section_meta", n |-> s]     \* f"section_{s}_meta"
InboundCountKey(s) == [kind |-> "inbound_count", n |-> s]   \* f"inbound_count_{s}"

CorpusMeta(c) ==
    [total_sections |-> c.sections_count,
     sections_with_citations |-> c.citations_count,
     complex_chains |-> c.chains_count,
     reverse_citations |-> c.reverse_count]

SectionMeta(section_data) ==
    [section |-> section_data.section_number,
     url_hash |-> section_data.url_hash,
     url |-> section_data.url,
     word_count |-> section_data.word_count,
     has_citations |-> section_data.has_citations,
     citation_count |-> section_data.citation_count,
     in_complex_chain |-> section_data.in_complex_chain]

MetadataOf(c, sdata) ==
    [k \in {CorpusInfoKey} \cup {SectionMetaKey(s) : s \in DOMAIN sdata} |->
        IF k = CorpusInfoKey THEN CorpusMeta(c) ELSE SectionMeta(sdata[k.n])]

(* inbound_counts[ref] += 1 for every ref of every entry of the citations table *)
InboundCounts(cdb) ==
    [ref \in UNION {Range(cdb[s].direct_references) : s \in DOMAIN cdb} |->
        Cardinality(UNION {{<<s, i>> : i \in {j \in 1..Len(cdb[s].direct_references) :
                                                cdb[s].direct_references[j] = ref}} :
                           s \in DOMAIN cdb})]

InboundOf(cdb) ==
    [k \in {InboundCountKey(ref) : ref \in DOMAIN InboundCounts(cdb)} |->
        [section |-> k.n, count |-> InboundCounts(cdb)[k.n]]]

PutAllDroppingExisting(db, new) ==
    [k \in (DOMAIN db \cup DOMAIN new) \ (DOMAIN db \cap DOMAIN new) |->
        IF k \in DOMAIN new THEN new[k] ELSE db[k]]

(* txn.put of the entries of `new` into the table `db` *)
PutAll(db, new) ==
    [k \in DOMAIN db \cup DOMAIN new |-> IF k \in DOMAIN new THEN new[k] ELSE db[k]]

----------------------------------------------------------------------------
(* LegalChainRetriever.get_chain: txn.get(section_number.encode()) *)
get_chain(db, section_number) == DictGet(db, SectionKey(section_number), NoValue)

(* get_section, get_citations, get_reverse_citations: txn.get(section_number.encode())
   in a read transaction of the table's own environment; None when absent *)
get_section(db, section_number) == DictGet(db, section_number, NoValue)
get_citations(db, section_number) == DictGet(db, section_number, NoValue)
get_reverse_citations(db, section_number) == DictGet(db, section_number, NoValue)

DefaultMaxChainDepth == 5    \* get_complete_context(max_chain_depth=5)

(* get_complete_context: the context before any citation is added *)
InitialContext(section_number, section) ==
    [primary_section |-> [section |-> section_number,
                          title |-> section.section_title,
                          url |-> section.url,
                          url_hash |-> section.url_hash,
                          full_text |-> section.full_text,
                          word_count |-> section.word_count,
                          paragraph_count |-> section.paragraph_count],
     direct_citations |-> <<>>,
     reverse_citations |-> <<>>,
     citation_chain |-> <<>>,
     chain_depth |-> [present |-> FALSE, value |-> 0],  \* the key is set when a chain is found
     total_context_words |-> section.word_count,
     sources |-> <<[section |-> section_number, url |-> section.url,
                    url_hash |-> section.url_hash]>>]

RECURSIVE SumWordCounts(_)
SumWordCounts(items) ==
    IF items = <<>> THEN 0 ELSE items[1].word_count + SumWordCounts(Tail(items))

(* the loop over citations['references_details']: an entry for every detail
   row whose section get_section finds *)
WithDirectCitations(ctx, citations, pdb) ==
    IF citations = NoValue THEN ctx
    ELSE LET found == SelectSeq(citations.references_details,
                                LAMBDA ref_detail : ref_detail.section \in DOMAIN pdb)
             entries == [i \in 1..Len(found) |->
                           [section |-> found[i].section,
                            title |-> pdb[found[i].section].section_title,
                            url |-> pdb[found[i].section].url,
                            url_hash |-> pdb[found[i].section].url_hash,
                            full_text |-> pdb[found[i].section].full_text,
                            word_count |-> pdb[found[i].section].word_count]]
         IN [ctx EXCEPT
               !.direct_citations = @ \o entries,
               !.total_context_words = @ + SumWordCounts(entries),
               !.sources = @ \o [i \in 1..Len(found) |->
                                   [section |-> found[i].section,
                                    url |-> pdb[found[i].section].url,
                                    url_hash |-> pdb[found[i].section].url_hash]]]

(* the loop over reverse['citing_details'] *)
WithReverseCitations(ctx, reverse, pdb) ==
    IF reverse = NoValue THEN ctx
    ELSE LET found == SelectSeq(reverse.citing_details,
                                LAMBDA citing_detail : citing_detail.section \in DOMAIN pdb)
         IN [ctx EXCEPT
               !.reverse_citations = @ \o
                   [i \in 1..Len(found) |->
                      [section |-> found[i].section,
                       title |-> pdb[found[i].section].section_title,
                       url |-> pdb[found[i].section].url,
                       url_hash |-> pdb[found[i].section].url_hash]]]

(* chain.get('complete_chain', [])[:max_chain_depth], and the words of the
   chain items other than the section itself *)
WithChain(ctx, chain, section_number, max_chain_depth) ==
    IF chain = NoValue THEN ctx
    ELSE LET chain_sections == Take(chain.complete_chain, max_chain_depth)
         IN [ctx EXCEPT
               !.citation_chain = chain_sections,
               !.chain_depth = [present |-> TRUE, value |-> Len(chain_sections)],
               !.total_context_words =
                   @ + SumWordCounts(SelectSeq(chain_sections,
                           LAMBDA chain_item : chain_item.section # section_number))]

(* get_complete_context on a store that does not change during the call *)
get_complete_context(store, section_number) ==
    IF get_section(store.primary, section_number) = NoValue THEN NoValue
    ELSE WithChain(
           WithReverseCitations(
             WithDirectCitations(
               InitialContext(section_number, get_section(store.primary, section_number)),
               get_citations(store.citations, section_number), store.primary),
             get_reverse_citations(store.reverse_citations, section_number), store.primary),
           get_chain(store.chains, section_number), section_number, DefaultMaxChainDepth)

----------------------------------------------------------------------------
(* LegalChainRetriever.get_most_cited_sections and get_related_sections *)

RECURSIVE InsertByCount(_, _)
(* the place of item in a list sorted by cited_by_count, descending: after
   the items that were there with the same count (list.sort is stable) *)
InsertByCount(item, sorted) ==
    IF sorted = <<>> THEN <<item>>
    ELSE IF sorted[1].cited_by_count >= item.cited_by_count
         THEN <<sorted[1]>> \o InsertByCount(item, Tail(sorted))
         ELSE <<item>> \o sorted

RECURSIVE SortByCount(_)
(* citation_counts.sort(key=lambda x: x['cited_by_count'], reverse=True) *)
SortByCount(items) ==
    IF items = <<>> THEN <<>>
    ELSE InsertByCount(items[Len(items)], SortByCount(SubSeq(items, 1, Len(items) - 1)))

(* the cursor over the reverse citations table, in key order: an entry for
   every row whose section get_section finds *)
CitationCounts(store) ==
    LET keys == SelectSeq(SortedSeq(DOMAIN store.reverse_citations),
                          LAMBDA key : get_section(store.primary,
                                           store.reverse_citations[key].section) # NoValue)
    IN [i \in 1..Len(keys) |->
          [section |-> store.reverse_citations[keys[i]].section,
           title |-> store.primary[store.reverse_citations[keys[i]].section].section_title,
           cited_by_count |-> store.reverse_citations[keys[i]].cited_by_count,
           url |-> store.primary[store.reverse_citations[keys[i]].section].url]]

get_most_cited_sections(store, limit) == Take(SortByCount(CitationCounts(store)), limit)

(* the entries of one of the two loops of get_related_sections: the ids of
   refs that are not seen and that get_section finds *)
RelatedEntries(store, refs, seen, relationship) ==
    LET found == SelectSeq(refs, LAMBDA ref : ref \notin seen
                                              /\ get_section(store.primary, ref) # NoValue)
    IN [i \in 1..Len(found) |->
          [section |-> found[i],
           title |-> store.primary[found[i]].section_title,
           relationship |-> relationship,
           url |-> store.primary[found[i]].url]]

get_related_sections(store, section_number, max_related) ==
    LET citations == get_citations(store.citations, section_number)
        direct == IF citations = NoValue THEN <<>>
                  ELSE RelatedEntries(store, Take(citations.direct_references, max_related),
                                      {section_number}, "cited_by_primary")
        seen == {section_number} \cup {direct[i].section : i \in 1..Len(direct)}
        reverse == get_reverse_citations(store.reverse_citations, section_number)
        citing == IF reverse # NoValue /\ Len(direct) < max_related
                  THEN RelatedEntries(store,
                                      Take(reverse.cited_by, max_related - Len(direct)),
                                      seen, "cites_primary")
                  ELSE <<>>
    IN Take(direct \o citing, max_related)

----------------------------------------------------------------------------
(* Inputs *)

BuildIds == 1..NumBuildSections
BuildTargets == 1..(NumBuildSections + 1)   \* the last id is never in the corpus

(* citation_map.json files: any set of keys, any citations of them *)
BuildMaps ==
    UNION {{[s \in K |-> SortedSeq({t \in BuildTargets : <<s, t>> \in E})] :
                E \in SubsetsUpTo(K \X BuildTargets, MaxBuildEdges)} :
           K \in SUBSET BuildIds}

(* corpus files: each section absent, or present with or without the pipe *)
CorpusFiles ==
    {LET present == SortedSeq({s \in BuildIds : f[s] # "absent"})
     IN [i \in 1..Len(present) |-> Doc(present[i], f[present[i]] = "pipe")] :
     f \in [BuildIds -> {"absent", "pipe", "nopipe"}]}

(* citation_contexts.jsonl with a context for every citation of the map *)
ContextsLines(cmap) ==
    LET sources == SortedSeq({s \in DOMAIN cmap : cmap[s] # <<>>})
    IN [i \in 1..Len(sources) |->
          [source_section |-> sources[i],
           citations |-> [j \in 1..Len(cmap[sources[i]]) |->
                            [target |-> cmap[sources[i]][j],
                             relationship |-> "defines",
                             context |-> <<sources[i], cmap[sources[i]][j]>>,
                             position |-> j]]]]

(* the corpus from which the mapper built cmap: one document per key *)
CorpusOf(cmap) ==
    LET keys == SortedSeq(DOMAIN cmap)
    IN [i \in 1..Len(keys) |-> Doc(keys[i], TRUE)]

NoCounts == [sections_count |-> 0, citations_count |-> 0, reverse_count |-> 0,
             chains_count |-> 0]

InitMemory ==
    /\ b_citation_map = <<>>
    /\ reverse_citation_map = <<>>
    /\ chains_map = <<>>
    /\ citation_contexts_map = <<>>
    /\ sections_data = <<>>
    /\ counts = NoCounts

InitDatabases ==
    /\ primary_db = <<>>
    /\ citations_db = <<>>
    /\ reverse_citations_db = <<>>
    /\ chains_db = <<>>
    /\ metadata_db = <<>>

----------------------------------------------------------------------------
(* CitationMapper.build_citation_mapping and its state file.  A line of the
   corpus is the record of what the loop reads from it: whether json.loads
   accepts it, the header (whether "Section <n>" is in it, and n), and the
   text of the paragraphs as the sequence of the section numbers it mentions. *)

MalformedLine == [json |-> FALSE, header |-> [has_section |-> FALSE, num |-> 0], text |-> <<>>]
MapperDoc(has_section, s, text) ==
    [json |-> TRUE, header |-> [has_section |-> has_section, num |-> s], text |-> text]

(* re.search(r'Section\s+(\d+\.\d+)', header): match.group(1) if match else None *)
extract_section_number(header) == IF header.has_section THEN header.num ELSE NoValue

(* the set of the section numbers found in the text *)
extract_cross_references(text) == SortedSeq(Range(text))

(* one citation for every distinct target, at its first position *)
extract_citation_with_context(text, section_number) ==
    LET firsts == SelectSeq([j \in 1..Len(text) |-> j],
                            LAMBDA j : \A k \in 1..(j - 1) : text[k] # text[j])
    IN [i \in 1..Len(firsts) |->
          [target |-> text[firsts[i]],
           relationship |-> "cross_reference",
           context |-> <<section_number, text[firsts[i]]>>,
           position |-> firsts[i]]]

(* _save_state(citation_map): the file is rewritten in place *)
_save_state(lpl, cmap) ==
    FileOf([last_processed_line |-> lpl, partial_citation_map |-> cmap])

(* _load_state: the partial map and the line to resume after *)
_load_state(file) ==
    IF file.exists
    THEN [last_processed_line |-> file.content.last_processed_line,
          partial_citation_map |-> file.content.partial_citation_map]
    ELSE [last_processed_line |-> 0, partial_citation_map |-> <<>>]

(* citation_map[section_num] = references *)
DictPut(d, key, value) ==
    [k \in DOMAIN d \cup {key} |-> IF k = key THEN value ELSE d[k]]

(* contexts_f.write(json.dumps(context_record) + '\n'), the file opened with 'a' *)
AppendContext(file, section_num, citation_contexts) ==
    IF citation_contexts = <<>> THEN file
    ELSE FileOf(file.content \o
                <<[source_section |-> section_num, citations |-> citation_contexts]>>)

(* if section_count % self.checkpoint_interval == 0 *)
CheckpointDue(count) == count % checkpoint_interval = 0

(* the loop has no line left to process: the file is exhausted, or the
   shutdown check breaks at a line after the resume point *)
LoopEnds ==
    \/ line_num > Len(input_file)
    \/ (line_num > last_processed_line /\ shutdown_requested)

(* corpora: line i is malformed, or has no section number in its header, or
   is section i mentioning nothing, or section i mentioning two sections *)
LineOptions(i) ==
    {MalformedLine,
     MapperDoc(FALSE, 0, <<i>>),
     MapperDoc(TRUE, i, <<>>),
     MapperDoc(TRUE, i, <<(i % NumLines) + 1, 1, (i % NumLines) + 1>>)}

MapperInputs == {f \in [1..NumLines -> UNION {LineOptions(i) : i \in 1..NumLines}] :
                    \A i \in 1..NumLines : f[i] \in LineOptions(i)}

----------------------------------------------------------------------------
(* ComprehensiveLMDBBuilder for case law.  A line of the corpus is the record
   of what the builder reads from it: the metadata line (line 1 holding
   'processed_files'), a line that json.loads rejects, or a case with its id
   (0: no 'id') and its cites_to list, each cite carried as the first of its
   case_ids (0: a cite without case_ids).  A key str(case_id).encode() is
   carried as the id.  Time stamps are left out of the records. *)

MetaLine == [kind |-> "meta", id |-> 0, cites_to |-> <<>>]
InvalidLine == [kind |-> "invalid", id |-> 0, cites_to |-> <<>>]
Case(id, cites_to) == [kind |-> "case", id |-> id, cites_to |-> cites_to]

(* BuildProgress(): total_processed, last_case_id and the per-table counts *)
NoProgress == [total_processed |-> 0, last_case_id |-> NoValue, primary_count |-> 0,
               citations_count |-> 0, reverse_citations_count |-> 0, chains_count |-> 0]

RECURSIVE ReadLoop(_, _, _, _)
(* _read_cases_in_batches from line pos + 1 on, up to the next yield: the
   batch and the number of lines consumed; an empty batch when the generator
   is exhausted *)
ReadLoop(corpus, pos, processed, acc) ==
    IF pos >= Len(corpus) THEN [batch |-> acc, pos |-> pos]
    ELSE LET line == corpus[pos + 1]
         IN IF pos + 1 = 1 /\ line.kind = "meta"
            THEN ReadLoop(corpus, pos + 1, processed, acc)
            ELSE IF line.kind # "case"
            THEN ReadLoop(corpus, pos + 1, processed, acc)
            ELSE IF line.id \in processed
            THEN ReadLoop(corpus, pos + 1, processed, acc)
            ELSE IF Len(acc) + 1 >= BATCH_SIZE
            THEN [batch |-> Append(acc, line), pos |-> pos + 1]
            ELSE ReadLoop(corpus, pos + 1, processed, Append(acc, line))

(* the case record stored in primary.lmdb *)
CaseData(case) ==
    [case_id |-> case.id,
     citation_count |-> Len(case.cites_to)]

(* [str(cite.get('case_ids', [])[0]) for cite in cites_to if cite.get('case_ids')] *)
CitedCaseIds(cites_to) == SelectSeq(cites_to, LAMBDA t : t # 0)

(* if cites_to: self.citation_map[case_key] = [...] *)
PutCitations(cmap, case) ==
    IF case.cites_to # <<>> THEN DictPut(cmap, case.id, CitedCaseIds(case.cites_to)) ELSE cmap

(* the progress fields that the loop body advances *)
TrackProgress(p, case_id) ==
    [p EXCEPT !.total_processed = @ + 1, !.primary_count = @ + 1, !.last_case_id = case_id]

(* if self.progress.total_processed % self.CHECKPOINT_INTERVAL == 0 *)
CaseCheckpointDue(p) == p.total_processed % CHECKPOINT_INTERVAL = 0

(* _save_progress: pickle.dump of the progress and the processed ids *)
_save_progress(p, ids) == FileOf([progress |-> p, processed_ids |-> ids])

(* _load_progress in __init__, when resume is enabled and the file exists *)
_load_progress(file) ==
    IF file.exists
    THEN [progress |-> file.content.progress, processed_ids |-> file.content.processed_ids]
    ELSE [progress |-> NoProgress, processed_ids |-> {}]

(* _build_batch_citations: the records of citations.lmdb for the batch *)
BatchCitations(cmap) ==
    [case_id \in DOMAIN cmap |->
        [case_id |-> case_id, cites_to |-> cmap[case_id],
         citation_count |-> Len(cmap[case_id])]]

(* _build_batch_citations: reverse_map of the batch *)
BatchReverseMap(cmap) ==
    [ref \in UNION {Range(cmap[c]) : c \in DOMAIN cmap} |->
        {c \in DOMAIN cmap : ref \in Range(cmap[c])}]

(* _build_batch_citations: the records of reverse_citations.lmdb for the batch *)
BatchReverseCitations(cmap) ==
    [case_id \in DOMAIN BatchReverseMap(cmap) |->
        [case_id |-> case_id,
         cited_by |-> SortedSeq(BatchReverseMap(cmap)[case_id]),
         cited_by_count |-> Cardinality(BatchReverseMap(cmap)[case_id])]]

(* build_metadata_database: corpus_meta *)
CaseCorpusMeta(p) ==
    [total_cases |-> p.primary_count,
     cases_with_citations |-> p.citations_count,
     reverse_citations |-> p.reverse_citations_count,
     complex_chains |-> p.chains_count]

(* corpora: line i is rejected by json.loads, or is a case without an id, or
   is case i citing nothing, or case i citing case 1 and a cite without
   case_ids, or case i citing a case that is not in the corpus *)
CaseLineOptions(i) ==
    {InvalidLine,
     Case(0, <<>>),
     Case(i, <<>>),
     Case(i, <<1, 0>>),
     Case(i, <<NumCases + 1>>)}

CaseCorpora ==
    LET body == {f \in [1..NumCases -> UNION {CaseLineOptions(i) : i \in 1..NumCases}] :
                    \A i \in 1..NumCases : f[i] \in CaseLineOptions(i)}
    IN body \cup {<<MetaLine>> \o f : f \in {g \in body : g[1] = InvalidLine}}

(* no call of the retriever is in progress *)
InitReaderIdle ==
    /\ reader_pc = "idle"
    /\ reader_section = 0
    /\ context = NoValue

(* the content of a file: absent, a complete record of the progress, or
   bytes that the parser rejects (a truncated or half-written record) *)
Absent == [kind |-> "absent", total_processed |-> 0]
Unparseable == [kind |-> "unparseable", total_processed |-> 0]
Record(n) == [kind |-> "complete", total_processed |-> n]

EmptyDisk == [progress |-> Absent, backup |-> Absent, tmp |-> Absent]

(* ProcessingState of a process that has not started *)
NewState == [processed_hashes |-> {}, failed_hashes |-> {}, last_line_number |-> 0,
             total_processed |-> 0]

(* the enricher does not run *)
InitEnricherIdle ==
    /\ enricher_pc = "off"
    /\ enricher_input = <<>>
    /\ enricher_state = NewState
    /\ buffer = <<>>
    /\ processing_state_file = [exists |-> FALSE, content |-> NewState]
    /\ training_qa_file = <<>>

(* no program runs on a progress file *)
InitCkptIdle ==
    /\ program = "none"
    /\ disk = EmptyDisk
    /\ ck_pc = "idle"
    /\ total_processed = 0

(* build_citation_mapping does not run *)
InitRunIdle ==
    /\ input_file = <<>>
    /\ line_num = 0
    /\ section_count = 0
    /\ last_processed_line = 0
    /\ shutdown_requested = FALSE
    /\ state_file = NoFile

(* the case-law builder does not run *)
InitCaseIdle ==
    /\ case_corpus = <<>>
    /\ line_pos = 0
    /\ batch = <<>>
    /\ batch_idx = 0
    /\ txn_buf = <<>>
    /\ cases_data = <<>>
    /\ batch_citation_map = <<>>
    /\ progress = NoProgress
    /\ processed_case_ids = {}
    /\ progress_file = NoFile

(* the mapper is started on a corpus, with no state file *)
InitMapper ==
    /\ pc = "map_start"
    /\ probe = NoValue
    /\ citation_map = <<>>
    /\ visited_global = {}
    /\ complex_chains = <<>>
    /\ simple_pairs = <<>>
    /\ citation_map_file = NoFile
    /\ complex_chains_file = NoFile
    /\ citation_contexts_file = NoFile
    /\ corpus_file = <<>>
    /\ builder = "none"
    /\ InitMemory
    /\ InitDatabases
    /\ input_file \in MapperInputs
    /\ line_num = 0
    /\ section_count = 0
    /\ last_processed_line = 0
    /\ shutdown_requested = FALSE
    /\ state_file = NoFile
    /\ InitCaseIdle
    /\ InitReaderIdle
    /\ InitCkptIdle
    /\ InitEnricherIdle
    /\ enable_enrichment = TRUE
    /\ interrupts = 0

(* the case-law builder is started on a corpus, with an empty output directory *)
InitCaselaw ==
    /\ pc = "case_start"
    /\ probe = NoValue
    /\ citation_map = <<>>
    /\ visited_global = {}
    /\ complex_chains = <<>>
    /\ simple_pairs = <<>>
    /\ citation_map_file = NoFile
    /\ complex_chains_file = NoFile
    /\ citation_contexts_file = NoFile
    /\ corpus_file = <<>>
    /\ builder = "caselaw"
    /\ InitMemory
    /\ InitDatabases
    /\ InitRunIdle
    /\ case_corpus \in CaseCorpora
    /\ line_pos = 0
    /\ batch = <<>>
    /\ batch_idx = 0
    /\ txn_buf = <<>>
    /\ cases_data = <<>>
    /\ batch_citation_map = <<>>
    /\ progress = NoProgress
    /\ processed_case_ids = {}
    /\ progress_file = NoFile
    /\ InitReaderIdle
    /\ InitCkptIdle
    /\ InitEnricherIdle
    /\ enable_enrichment = TRUE
    /\ interrupts = 0

(* the store that a complete build of the old inputs left, which a rebuild
   on new inputs overwrites while callers of the retriever read it *)
OldCorpusFile == <<Doc(1, TRUE), Doc(2, TRUE)>>
OldCitationMap == [s \in {1, 2} |-> IF s = 1 THEN <<2, NumBuildSections + 1>> ELSE <<1>>]

(* a chains file whose chain_id is the primary section *)
SectionChainsLines ==
    <<[chain_id |-> SectionKey(1), primary_section |-> 1, chain_sections |-> <<1, 2>>,
       chain_depth |-> 2, references_count |-> 2]>>

(* the tables after load_citation_data and the first n build steps of
   builder b on the given files, starting from the tables of store *)
StoreAfter(n, b, store, cmfile, chfile, ctxfile, corpus) ==
    LET cmap == IF cmfile.exists THEN cmfile.content ELSE <<>>
        rmap == IF b = "admin" /\ cmfile.exists THEN LoadReverseCitationMap(cmfile.content)
                ELSE <<>>
        chmap == IF chfile.exists THEN LoadChainsMap(chfile.content) ELSE <<>>
        ctxmap == IF b = "admin" /\ ctxfile.exists THEN LoadContextsMap(ctxfile.content)
                  ELSE <<>>
        sdata == SectionsOf(b, corpus, cmap, rmap, chmap)
    IN [primary |-> IF n >= 1 THEN PutAll(store.primary, sdata) ELSE store.primary,
        citations |-> IF n >= 2
                      THEN PutAll(store.citations, CitationsOf(b, cmap, ctxmap, sdata))
                      ELSE store.citations,
        reverse_citations |-> IF n >= 3
                              THEN PutAll(store.reverse_citations,
                                          ReverseCitationsOf(cmap, sdata))
                              ELSE store.reverse_citations,
        chains |-> IF n >= 4 /\ ~BuildChainsRaises(b, chmap)
                   THEN PutAll(store.chains, ChainsOf(b, chmap, sdata))
                   ELSE store.chains]

EmptyStore == [primary |-> <<>>, citations |-> <<>>, reverse_citations |-> <<>>,
               chains |-> <<>>]

OldStore(b) == StoreAfter(4, b, EmptyStore, FileOf(OldCitationMap),
                          FileOf(SectionChainsLines), NoFile, OldCorpusFile)

(* a rebuild on new inputs over the old store, and callers of the retriever *)
InitReader ==
    /\ pc = "saved"
    /\ probe = NoValue
    /\ citation_map = <<>>
    /\ visited_global = {}
    /\ complex_chains = <<>>
    /\ simple_pairs = <<>>
    /\ citation_map_file \in {FileOf(m) : m \in BuildMaps}
    /\ complex_chains_file \in {NoFile, FileOf(SectionChainsLines)}
    /\ builder \in {"admin", "constitution"}
    /\ citation_contexts_file = NoFile
    /\ corpus_file \in CorpusFiles
    /\ InitMemory
    /\ enable_enrichment = TRUE
    /\ primary_db = OldStore(builder).primary
    /\ citations_db = OldStore(builder).citations
    /\ reverse_citations_db = OldStore(builder).reverse_citations
    /\ chains_db = OldStore(builder).chains
    /\ metadata_db = <<>>
    /\ InitRunIdle
    /\ InitCaseIdle
    /\ InitReaderIdle
    /\ InitCkptIdle
    /\ InitEnricherIdle
    /\ interrupts = 0

(* corpus files with malformed lines and headers without a pipe: at most
   MaxIngestLines lines, no section on two lines *)
IngestLines == {MalformedDoc} \cup {Doc(s, pipe) : s \in BuildIds, pipe \in BOOLEAN}

IngestCorpora ==
    {file \in UNION {[1..n -> IngestLines] : n \in 1..MaxIngestLines} :
        \A i, j \in 1..Len(file) :
            (i # j /\ file[i].json /\ file[j].json)
                => file[i].header.num # file[j].header.num}

(* a build of an empty store, with or without enrichment *)
InitIngest ==
    /\ pc = "saved"
    /\ probe = NoValue
    /\ citation_map = <<>>
    /\ visited_global = {}
    /\ complex_chains = <<>>
    /\ simple_pairs = <<>>
    /\ citation_map_file \in {NoFile, FileOf(OldCitationMap)}
    /\ complex_chains_file = NoFile
    /\ builder \in {"admin", "constitution"}
    /\ citation_contexts_file = NoFile
    /\ corpus_file \in IngestCorpora
    /\ enable_enrichment \in BOOLEAN
    /\ InitMemory
    /\ InitDatabases
    /\ InitRunIdle
    /\ InitCaseIdle
    /\ InitReaderIdle
    /\ InitCkptIdle
    /\ InitEnricherIdle
    /\ interrupts = 0

(* a program starts on a disk whose progress file is absent, complete or
   corrupt *)
InitProgress ==
    /\ pc = "idle"
    /\ probe = NoValue
    /\ citation_map = <<>>
    /\ visited_global = {}
    /\ complex_chains = <<>>
    /\ simple_pairs = <<>>
    /\ citation_map_file = NoFile
    /\ complex_chains_file = NoFile
    /\ builder = "admin"
    /\ citation_contexts_file = NoFile
    /\ corpus_file = <<>>
    /\ enable_enrichment = TRUE
    /\ InitMemory
    /\ InitDatabases
    /\ InitRunIdle
    /\ InitCaseIdle
    /\ InitReaderIdle
    /\ program \in {"caselaw", "mapper", "converter"}
    /\ disk \in {[EmptyDisk EXCEPT !.progress = f] :
                    f \in {Absent, Unparseable} \cup {Record(n) : n \in 0..MaxProcessed}}
    /\ ck_pc = "start"
    /\ total_processed = 0
    /\ InitEnricherIdle
    /\ interrupts = 0

(* the inputs of a store that is queried *)
QueryIds == 1..NumQuerySections
QueryTargets == 1..(NumQuerySections + 1)   \* the last id is never in the corpus

QueryMaps ==
    {[s \in {e[1] : e \in E} |-> SortedSeq({t \in QueryTargets : <<s, t>> \in E})] :
        E \in SubsetsUpTo(QueryIds \X QueryTargets, MaxQueryEdges)}

QueryCorpora ==
    {[i \in 1..n |-> Doc(i, TRUE)] : n \in {NumQuerySections - 1, NumQuerySections}}

(* the files of a build of the administrative code, whose store is queried *)
InitQueries ==
    /\ pc = "saved"
    /\ probe = NoValue
    /\ citation_map = <<>>
    /\ visited_global = {}
    /\ complex_chains = <<>>
    /\ simple_pairs = <<>>
    /\ citation_map_file \in {FileOf(m) : m \in QueryMaps}
    /\ complex_chains_file \in {NoFile, FileOf(SectionChainsLines)}
    /\ builder = "admin"
    /\ citation_contexts_file = NoFile
    /\ corpus_file \in QueryCorpora
    /\ enable_enrichment = TRUE
    /\ InitMemory
    /\ InitDatabases
    /\ InitRunIdle
    /\ InitCaseIdle
    /\ InitReaderIdle
    /\ InitCkptIdle
    /\ InitEnricherIdle
    /\ interrupts = 0

(* a caller of _calculate_complexity with any counts *)
InitComplexity ==
    /\ pc = "complexity_start"
    /\ probe \in {[kind |-> "counts", n |-> 0, word_count |-> w, paragraph_count |-> p,
                    citation_count |-> c, complexity |-> 0] :
                       w \in 0..MaxWordCount, p \in 0..MaxParagraphCount,
                       c \in 0..MaxCitationCount}
    /\ citation_map = <<>>
    /\ visited_global = {}
    /\ complex_chains = <<>>
    /\ simple_pairs = <<>>
    /\ citation_map_file = NoFile
    /\ complex_chains_file = NoFile
    /\ builder = "admin"
    /\ citation_contexts_file = NoFile
    /\ corpus_file = <<>>
    /\ enable_enrichment = TRUE
    /\ InitMemory
    /\ InitDatabases
    /\ InitRunIdle
    /\ InitCaseIdle
    /\ InitReaderIdle
    /\ InitCkptIdle
    /\ InitEnricherIdle
    /\ interrupts = 0

(* run_analysis of the mapper on a corpus, followed by a build *)
InitChains ==
    /\ pc = "start"
    /\ probe = NoValue
    /\ citation_map \in InputMaps
    /\ visited_global = {}
    /\ complex_chains = <<>>
    /\ simple_pairs = <<>>
    /\ citation_map_file = NoFile
    /\ complex_chains_file = NoFile
    /\ citation_contexts_file = NoFile
    /\ corpus_file = CorpusOf(citation_map)
    /\ builder = "none"
    /\ InitMemory
    /\ InitDatabases
    /\ InitRunIdle
    /\ InitCaseIdle
    /\ InitReaderIdle
    /\ InitCkptIdle
    /\ InitEnricherIdle
    /\ enable_enrichment = TRUE
    /\ interrupts = 0

(* a build from files found on disk *)
InitBuild ==
    /\ pc = "saved"
    /\ probe = NoValue
    /\ citation_map = <<>>
    /\ visited_global = {}
    /\ complex_chains = <<>>
    /\ simple_pairs = <<>>
    /\ citation_map_file \in {NoFile} \cup {FileOf(m) : m \in BuildMaps}
    /\ complex_chains_file = NoFile
    /\ builder \in {"admin", "constitution"}
    /\ citation_contexts_file \in
          {NoFile} \cup (IF builder = "admin" /\ citation_map_file.exists
                         THEN {FileOf(ContextsLines(citation_map_file.content))} ELSE {})
    /\ corpus_file \in CorpusFiles
    /\ InitMemory
    /\ InitDatabases
    /\ InitRunIdle
    /\ InitCaseIdle
    /\ InitReaderIdle
    /\ InitCkptIdle
    /\ InitEnricherIdle
    /\ enable_enrichment = TRUE
    /\ interrupts = 0

----------------------------------------------------------------------------
(* Actions of the mapper *)

(* a caller of the static method, with the default max_size *)
CallBuildReferenceChain(s) ==
    /\ pc = "start"
    /\ UNCHANGED <<runVars, caseVars, readerVars, enable_enrichment, ckptVars, enricherVars, interrupts>>
    /\ probe' = [kind |-> "chain", n |-> s,
                 chain |-> _build_reference_chain(s, citation_map, DefaultMaxSize)]
    /\ pc' = "called"
    /\ UNCHANGED <<mapperVars, fileVars, builder, memVars, dbVars>>

AnalyzeCitationPatterns ==
    /\ pc = "start"
    /\ UNCHANGED <<runVars, caseVars, readerVars, enable_enrichment, ckptVars, enricherVars, interrupts>>
    /\ LET st == analyze_citation_patterns(citation_map)
       IN /\ visited_global' = st.visited_global
          /\ complex_chains' = st.complex_chains
          /\ simple_pairs' = st.simple_pairs
    /\ pc' = "analyzed"
    /\ UNCHANGED <<probe, citation_map, fileVars, builder, memVars, dbVars>>

SaveResults ==
    /\ pc = "analyzed"
    /\ UNCHANGED <<runVars, caseVars, readerVars, enable_enrichment, ckptVars, enricherVars, interrupts>>
    /\ citation_map_file' = FileOf(citation_map)
    /\ complex_chains_file' = FileOf(ComplexChainsLines(complex_chains))
    /\ pc' = "saved"
    /\ UNCHANGED <<probe, mapperVars, citation_contexts_file, corpus_file, builder,
                   memVars, dbVars>>

----------------------------------------------------------------------------
(* Actions of the builder: the steps of build_all *)

LoadCitationData ==
    /\ pc = "saved"
    /\ UNCHANGED <<runVars, caseVars, readerVars, enable_enrichment, ckptVars, enricherVars, interrupts>>
    /\ b_citation_map' = IF citation_map_file.exists THEN citation_map_file.content ELSE <<>>
    /\ reverse_citation_map' =
          IF builder = "admin" /\ citation_map_file.exists
          THEN LoadReverseCitationMap(citation_map_file.content) ELSE <<>>
    /\ chains_map' = IF complex_chains_file.exists
                     THEN LoadChainsMap(complex_chains_file.content) ELSE <<>>
    /\ citation_contexts_map' =
          IF builder = "admin" /\ citation_contexts_file.exists
          THEN LoadContextsMap(citation_contexts_file.content) ELSE <<>>
    /\ pc' = "loaded"
    /\ UNCHANGED <<probe, mapperVars, fileVars, builder, sections_data, counts, dbVars>>

BuildSectionsDatabase ==
    /\ pc = "loaded"
    /\ UNCHANGED <<runVars, caseVars, readerVars, enable_enrichment, ckptVars, enricherVars, interrupts>>
    /\ sections_data' = SectionsOf(builder, corpus_file, b_citation_map,
                                   reverse_citation_map, chains_map)
    /\ IF SectionsRaises(corpus_file)
       THEN \* JSONDecodeError leaves the write transaction (abort) and build_all
            /\ pc' = "failed"
            /\ UNCHANGED <<primary_db, counts>>
       ELSE /\ primary_db' = PutAll(primary_db, sections_data')
            /\ counts' = [counts EXCEPT !.sections_count = Len(StoredLines(corpus_file))]
            /\ pc' = "sections"
    /\ UNCHANGED <<probe, mapperVars, fileVars, builder, b_citation_map,
                   reverse_citation_map, chains_map, citation_contexts_map,
                   citations_db, reverse_citations_db, chains_db, metadata_db>>

BuildCitationsDatabase ==
    /\ pc = "sections"
    /\ UNCHANGED <<runVars, caseVars, readerVars, enable_enrichment, ckptVars, enricherVars, interrupts>>
    /\ citations_db' = PutAll(citations_db,
                              CitationsOf(builder, b_citation_map, citation_contexts_map,
                                          sections_data))
    /\ counts' = [counts EXCEPT !.citations_count = Cardinality(DOMAIN b_citation_map)]
    /\ pc' = "citations"
    /\ UNCHANGED <<probe, mapperVars, fileVars, builder, b_citation_map,
                   reverse_citation_map, chains_map, citation_contexts_map, sections_data,
                   primary_db, reverse_citations_db, chains_db, metadata_db>>

BuildReverseCitationsDatabase ==
    /\ pc = "citations"
    /\ UNCHANGED <<runVars, caseVars, readerVars, enable_enrichment, ckptVars, enricherVars, interrupts>>
    /\ reverse_citations_db' = PutAll(reverse_citations_db,
                                      ReverseCitationsOf(b_citation_map, sections_data))
    /\ counts' = [counts EXCEPT
                    !.reverse_count = Cardinality(DOMAIN BuildReverseMap(b_citation_map))]
    /\ pc' = "reverse"
    /\ UNCHANGED <<probe, mapperVars, fileVars, builder, b_citation_map,
                   reverse_citation_map, chains_map, citation_contexts_map, sections_data,
                   primary_db, citations_db, chains_db, metadata_db>>

(* the write transaction commits; the constitution builder raises KeyError on
   the chain records that save_results writes and build_all ends in finally *)
BuildChainsDatabase ==
    /\ pc = "reverse"
    /\ UNCHANGED <<runVars, caseVars, readerVars, enable_enrichment, ckptVars, enricherVars, interrupts>>
    /\ IF BuildChainsRaises(builder, chains_map)
       THEN /\ pc' = "failed"
            /\ UNCHANGED <<chains_db, counts>>
       ELSE /\ chains_db' = PutAll(chains_db, ChainsOf(builder, chains_map, sections_data))
            /\ counts' = [counts EXCEPT !.chains_count = Cardinality(DOMAIN chains_map)]
            /\ pc' = "chains"
    /\ UNCHANGED <<probe, mapperVars, fileVars, builder, b_citation_map,
                   reverse_citation_map, chains_map, citation_contexts_map, sections_data,
                   primary_db, citations_db, reverse_citations_db, metadata_db>>

BuildMetadataDatabase ==
    /\ pc = "chains"
    /\ UNCHANGED <<runVars, caseVars, readerVars, enable_enrichment, ckptVars, enricherVars, interrupts>>
    /\ metadata_db' = PutAll(metadata_db, MetadataOf(counts, sections_data))
    /\ pc' = IF builder = "admin" THEN "metadata" ELSE "done"
    /\ UNCHANGED <<probe, mapperVars, fileVars, builder, memVars,
                   primary_db, citations_db, reverse_citations_db, chains_db>>

(* administrative code only *)
CalculateInboundCounts ==
    /\ pc = "metadata"
    /\ UNCHANGED <<runVars, caseVars, readerVars, enable_enrichment, ckptVars, enricherVars, interrupts>>
    /\ metadata_db' = PutAll(metadata_db, InboundOf(citations_db))
    /\ pc' = "done"
    /\ UNCHANGED <<probe, mapperVars, fileVars, builder, memVars,
                   primary_db, citations_db, reverse_citations_db, chains_db>>

(* build_all as one step, by either builder, on the files the mapper wrote *)
BuildAll(b) ==
    /\ pc = "saved"
    /\ UNCHANGED <<runVars, caseVars, readerVars, enable_enrichment, ckptVars, enricherVars, interrupts>>
    /\ builder' = b
    /\ b_citation_map' = IF citation_map_file.exists THEN citation_map_file.content ELSE <<>>
    /\ reverse_citation_map' =
          IF b = "admin" /\ citation_map_file.exists
          THEN LoadReverseCitationMap(citation_map_file.content) ELSE <<>>
    /\ chains_map' = IF complex_chains_file.exists
                     THEN LoadChainsMap(complex_chains_file.content) ELSE <<>>
    /\ citation_contexts_map' =
          IF b = "admin" /\ citation_contexts_file.exists
          THEN LoadContextsMap(citation_contexts_file.content) ELSE <<>>
    /\ sections_data' = SectionsOf(b, corpus_file, b_citation_map',
                                   reverse_citation_map', chains_map')
    /\ IF SectionsRaises(corpus_file)
       THEN \* build_sections_database raises: nothing is committed
            /\ pc' = "failed"
            /\ UNCHANGED <<dbVars, counts>>
       ELSE /\ primary_db' = PutAll(primary_db, sections_data')
            /\ citations_db' = PutAll(citations_db,
                                      CitationsOf(b, b_citation_map', citation_contexts_map',
                                                  sections_data'))
            /\ reverse_citations_db' = PutAll(reverse_citations_db,
                                              ReverseCitationsOf(b_citation_map', sections_data'))
            /\ counts' = [sections_count |-> Len(StoredLines(corpus_file)),
                          citations_count |-> Cardinality(DOMAIN b_citation_map'),
                          reverse_count |-> Cardinality(DOMAIN BuildReverseMap(b_citation_map')),
                          chains_count |-> IF BuildChainsRaises(b, chains_map') THEN 0
                                           ELSE Cardinality(DOMAIN chains_map')]
            /\ IF BuildChainsRaises(b, chains_map')
               THEN /\ pc' = "failed"
                    /\ UNCHANGED <<chains_db, metadata_db>>
               ELSE /\ chains_db' = PutAll(chains_db, ChainsOf(b, chains_map', sections_data'))
                    /\ metadata_db' =
                          LET meta == PutAll(metadata_db, MetadataOf(counts', sections_data'))
                          IN IF b = "admin" THEN PutAll(meta, InboundOf(citations_db')) ELSE meta
                    /\ pc' = "done"
    /\ UNCHANGED <<probe, mapperVars, fileVars>>

(* a reader of the finished store *)
GetChain(p) ==
    /\ pc = "done"
    /\ UNCHANGED <<runVars, caseVars, readerVars, enable_enrichment, ckptVars, enricherVars, interrupts>>
    /\ probe' = [kind |-> "get_chain", n |-> p, value |-> get_chain(chains_db, p)]
    /\ pc' = "queried"
    /\ UNCHANGED <<mapperVars, fileVars, builder, memVars, dbVars>>

(* the tables that the retriever reads *)
Store == [primary |-> primary_db, citations |-> citations_db,
          reverse_citations |-> reverse_citations_db, chains |-> chains_db]

queryFrame == <<mapperVars, fileVars, builder, enable_enrichment, memVars, dbVars,
                runVars, caseVars, readerVars, ckptVars, enricherVars, interrupts>>

(* a caller of get_most_cited_sections on the finished store *)
MostCited(limit) ==
    /\ pc = "done"
    /\ probe' = [kind |-> "most_cited", n |-> limit,
                 value |-> get_most_cited_sections(Store, limit)]
    /\ pc' = "queried"
    /\ UNCHANGED queryFrame

(* a caller of get_related_sections on the finished store *)
RelatedSections(section_number, max_related) ==
    /\ pc = "done"
    /\ probe' = [kind |-> "related", n |-> section_number, max_related |-> max_related,
                 value |-> get_related_sections(Store, section_number, max_related)]
    /\ pc' = "queried"
    /\ UNCHANGED queryFrame

(* a caller of get_complete_context on the finished store; no build runs *)
CompleteContext(section_number) ==
    /\ pc = "done"
    /\ probe' = [kind |-> "context", n |-> section_number,
                 value |-> get_complete_context(Store, section_number)]
    /\ pc' = "queried"
    /\ UNCHANGED queryFrame

NextQueries ==
    \/ BuildAll("admin")
    \/ \E limit \in 0..MaxLimit : MostCited(limit)
    \/ \E section_number \in QueryTargets, max_related \in 0..MaxLimit :
          RelatedSections(section_number, max_related)
    \/ \E section_number \in QueryTargets : CompleteContext(section_number)

(* a build of the administrative code and the queries of its store *)
SpecQueries == InitQueries /\ [][NextQueries]_vars

----------------------------------------------------------------------------
(* RobustEnricher: the question-answer enricher.  A process is one run of
   the program; a signal or a kill ends it and the next process resumes from
   processing_state.json.  A document is its hash and the number of valid QA
   pairs the language model yields for it; the output file holds one entry
   per flushed document, standing for its QA pairs. *)

InvalidJson == [kind |-> "invalid", hash |-> 0, pairs |-> 0]
EnricherLines ==
    {InvalidJson} \cup
    {[kind |-> "doc", hash |-> h, pairs |-> p] : h \in 1..NumDocuments, p \in 0..1}

(* _load_state: the saved state if the state file exists, else a new one *)
LoadProcessingState(file) == IF file.exists THEN file.content ELSE NewState

(* _save_state: json.dump(self.state.to_dict()) over the state file *)
SaveProcessingState(st) == [exists |-> TRUE, content |-> st]

(* _flush_buffer: the QA pairs of every buffered document are appended *)
_flush_buffer(file, buf) == file \o buf

InitEnricher ==
    /\ pc = "idle"
    /\ probe = NoValue
    /\ citation_map = <<>>
    /\ visited_global = {}
    /\ complex_chains = <<>>
    /\ simple_pairs = <<>>
    /\ citation_map_file = NoFile
    /\ complex_chains_file = NoFile
    /\ builder = "admin"
    /\ citation_contexts_file = NoFile
    /\ corpus_file = <<>>
    /\ enable_enrichment = TRUE
    /\ InitMemory
    /\ InitDatabases
    /\ InitRunIdle
    /\ InitCaseIdle
    /\ InitReaderIdle
    /\ InitCkptIdle
    /\ enricher_pc = "off"
    /\ enricher_input \in [1..NumDocuments -> EnricherLines]
    /\ enricher_state = NewState
    /\ buffer = <<>>
    /\ processing_state_file = [exists |-> FALSE, content |-> NewState]
    /\ training_qa_file = <<>>
    /\ interrupts = 0

enricherFrame == <<pc, probe, mapperVars, fileVars, builder, enable_enrichment, memVars,
                   dbVars, runVars, caseVars, readerVars, ckptVars>>

(* RobustEnricher(): the state is loaded, the buffer is empty; run() begins *)
StartSession ==
    /\ enricher_pc = "off"
    /\ enricher_state' = LoadProcessingState(processing_state_file)
    /\ buffer' = <<>>
    /\ enricher_pc' = "loop"
    /\ UNCHANGED <<enricher_input, processing_state_file, training_qa_file, interrupts,
                   enricherFrame>>

(* run: the next line after the resume point, up to the return of
   _process_document.  A line that is not JSON, a hash already processed or
   failed, and a document without QA pairs end the iteration. *)
ProcessDocument ==
    /\ enricher_pc = "loop"
    /\ enricher_state.last_line_number < Len(enricher_input)
    /\ LET line_no == enricher_state.last_line_number + 1
           doc == enricher_input[line_no]
       IN IF \/ doc.kind = "invalid"
             \/ doc.hash \in enricher_state.processed_hashes
             \/ doc.hash \in enricher_state.failed_hashes
          THEN /\ enricher_state' = [enricher_state EXCEPT !.last_line_number = line_no]
               /\ enricher_pc' = "loop"
          ELSE IF doc.pairs = 0
          THEN /\ enricher_state' =
                       [enricher_state EXCEPT !.failed_hashes = @ \cup {doc.hash},
                                              !.last_line_number = line_no]
               /\ enricher_pc' = "loop"
          ELSE /\ enricher_state' =
                       [enricher_state EXCEPT !.processed_hashes = @ \cup {doc.hash},
                                              !.total_processed = @ + 1]
               /\ enricher_pc' = "processed"
    /\ UNCHANGED <<enricher_input, buffer, processing_state_file, training_qa_file,
                   interrupts, enricherFrame>>

(* run: the enriched document is buffered, the buffer is flushed when it is
   full, the state is saved when total_processed is a multiple of the
   checkpoint interval, and the line is counted *)
AppendEnriched ==
    /\ enricher_pc = "processed"
    /\ LET line_no == enricher_state.last_line_number + 1
           appended == Append(buffer, enricher_input[line_no].hash)
           flushes == Len(appended) >= buffer_size
           saves == enricher_state.total_processed % enricher_checkpoint_interval = 0
       IN /\ buffer' = IF flushes THEN <<>> ELSE appended
          /\ training_qa_file' = IF flushes THEN _flush_buffer(training_qa_file, appended)
                                            ELSE training_qa_file
          /\ processing_state_file' = IF saves THEN SaveProcessingState(enricher_state)
                                                 ELSE processing_state_file
          /\ enricher_state' = [enricher_state EXCEPT !.last_line_number = line_no]
    /\ enricher_pc' = "loop"
    /\ UNCHANGED <<enricher_input, interrupts, enricherFrame>>

(* run: the input is exhausted; final flush and save *)
FinalFlushAndSave ==
    /\ enricher_pc = "loop"
    /\ enricher_state.last_line_number >= Len(enricher_input)
    /\ training_qa_file' = _flush_buffer(training_qa_file, buffer)
    /\ buffer' = <<>>
    /\ processing_state_file' = SaveProcessingState(enricher_state)
    /\ enricher_pc' = "off"
    /\ UNCHANGED <<enricher_input, enricher_state, interrupts, enricherFrame>>

(* _signal_handler, first half: SIGINT or SIGTERM arrives between two
   statements of the main thread and the handler saves the state *)
EnricherSignal ==
    /\ enricher_pc \in {"loop", "processed"}
    /\ interrupts < MaxKills
    /\ interrupts' = interrupts + 1
    /\ processing_state_file' = SaveProcessingState(enricher_state)
    /\ enricher_pc' = "handler"
    /\ UNCHANGED <<enricher_input, enricher_state, buffer, training_qa_file, enricherFrame>>

(* _signal_handler, second half: the buffer is flushed and the process exits *)
EnricherSignalFlush ==
    /\ enricher_pc = "handler"
    /\ training_qa_file' = _flush_buffer(training_qa_file, buffer)
    /\ buffer' = <<>>
    /\ enricher_pc' = "off"
    /\ UNCHANGED <<enricher_input, enricher_state, processing_state_file, interrupts,
                   enricherFrame>>

(* the process is killed or the machine stops: memory is lost, files stay *)
EnricherKill ==
    /\ enricher_pc \in {"loop", "processed", "handler"}
    /\ interrupts < MaxKills
    /\ interrupts' = interrupts + 1
    /\ enricher_pc' = "off"
    /\ UNCHANGED <<enricher_input, enricher_state, buffer, processing_state_file,
                   training_qa_file, enricherFrame>>

NextEnricher ==
    \/ StartSession
    \/ ProcessDocument
    \/ AppendEnriched
    \/ FinalFlushAndSave
    \/ EnricherSignal
    \/ EnricherSignalFlush
    \/ EnricherKill

(* runs of the enricher over one input file, with signals and kills *)
SpecEnricher == InitEnricher /\ [][NextEnricher]_vars

----------------------------------------------------------------------------
(* Actions of build_citation_mapping.  A process is a run of the mapper; a
   signal ends it and the next process resumes from the state file. *)

(* CitationMapper(): the state of a new process; build_citation_mapping up
   to the loop: the state file is loaded if it exists *)
StartMapping ==
    /\ pc \in {"map_start", "map_exited"}
    /\ LET st == _load_state(state_file)
       IN /\ last_processed_line' = st.last_processed_line
          /\ citation_map' = st.partial_citation_map
          /\ section_count' = Cardinality(DOMAIN st.partial_citation_map)
    /\ shutdown_requested' = FALSE
    /\ line_num' = 1
    /\ citation_contexts_file' = FileOf(citation_contexts_file.content)
    /\ pc' = "map_loop"
    /\ UNCHANGED <<probe, visited_global, complex_chains, simple_pairs, citation_map_file,
                   complex_chains_file, corpus_file, builder, memVars, dbVars,
                   input_file, state_file, caseVars, readerVars, enable_enrichment, ckptVars, enricherVars, interrupts>>

(* if line_num <= self.last_processed_line: continue *)
SkipToResumePoint ==
    /\ pc = "map_loop"
    /\ line_num <= Len(input_file)
    /\ line_num <= last_processed_line
    /\ line_num' = line_num + 1
    /\ UNCHANGED <<pc, probe, mapperVars, fileVars, builder, memVars, dbVars,
                   input_file, section_count, last_processed_line, shutdown_requested,
                   state_file, caseVars, readerVars, enable_enrichment, ckptVars, enricherVars, interrupts>>

(* the try block up to section_count += 1; a line that json.loads rejects
   only moves last_processed_line *)
ExtractSection ==
    /\ pc = "map_loop"
    /\ line_num <= Len(input_file)
    /\ line_num > last_processed_line
    /\ ~shutdown_requested
    /\ LET doc == input_file[line_num]
           section_num == extract_section_number(doc.header)
       IN IF ~doc.json
          THEN /\ last_processed_line' = line_num
               /\ line_num' = line_num + 1
               /\ UNCHANGED <<pc, citation_map, section_count, citation_contexts_file>>
          ELSE /\ pc' = "map_extracted"
               /\ UNCHANGED <<last_processed_line, line_num>>
               /\ IF doc.header.has_section      \* if section_num:
                  THEN /\ citation_contexts_file' =
                             AppendContext(citation_contexts_file, section_num,
                                           extract_citation_with_context(doc.text, section_num))
                       /\ citation_map' = DictPut(citation_map, section_num,
                                                  extract_cross_references(doc.text))
                       /\ section_count' = section_count + 1
                  ELSE UNCHANGED <<citation_map, section_count, citation_contexts_file>>
    /\ UNCHANGED <<probe, visited_global, complex_chains, simple_pairs, citation_map_file,
                   complex_chains_file, corpus_file, builder, memVars, dbVars,
                   input_file, shutdown_requested, state_file, caseVars, readerVars, enable_enrichment, ckptVars, enricherVars, interrupts>>

(* self.last_processed_line = line_num and the periodic checkpoint *)
AdvanceLine ==
    /\ pc = "map_extracted"
    /\ last_processed_line' = line_num
    /\ state_file' = IF CheckpointDue(section_count)
                     THEN _save_state(line_num, citation_map) ELSE state_file
    /\ line_num' = line_num + 1
    /\ pc' = "map_loop"
    /\ UNCHANGED <<probe, mapperVars, fileVars, builder, memVars, dbVars,
                   input_file, section_count, shutdown_requested, caseVars, readerVars, enable_enrichment, ckptVars, enricherVars, interrupts>>

(* the final save after the loop *)
FinalSave ==
    /\ pc = "map_loop"
    /\ LoopEnds
    /\ state_file' = _save_state(last_processed_line, citation_map)
    /\ pc' = "map_done"
    /\ UNCHANGED <<probe, mapperVars, fileVars, builder, memVars, dbVars,
                   input_file, line_num, section_count, last_processed_line,
                   shutdown_requested, caseVars, readerVars, enable_enrichment, ckptVars, enricherVars, interrupts>>

(* _signal_handler, run by the interpreter between two instructions of the
   loop: self._save_state() is called without a map, so (citation_map or {})
   is {}; sys.exit(0) ends the process *)
SignalHandler ==
    /\ pc \in {"map_loop", "map_extracted"}
    /\ interrupts < MaxInterrupts
    /\ shutdown_requested' = TRUE
    /\ state_file' = _save_state(last_processed_line, <<>>)
    /\ probe' = [kind |-> "signal", n |-> line_num, at |-> pc]
    /\ interrupts' = interrupts + 1
    /\ pc' = "map_exited"
    /\ UNCHANGED <<mapperVars, fileVars, builder, memVars, dbVars,
                   input_file, line_num, section_count, last_processed_line, caseVars, readerVars, enable_enrichment, ckptVars, enricherVars>>

----------------------------------------------------------------------------
(* Actions of the case-law builder.  A process is a run of build_all with
   resume enabled; an interrupt ends it and the next process starts over. *)

otherVarsOfCaselaw == <<mapperVars, fileVars, builder, memVars, chains_db, runVars,
                        readerVars, enable_enrichment, ckptVars, enricherVars, case_corpus>>

(* ComprehensiveLMDBBuilder(resume=True) and build_all up to the batch loop *)
BeginRun ==
    /\ LET saved == _load_progress(progress_file)
       IN /\ progress' = saved.progress
          /\ processed_case_ids' = saved.processed_ids
    /\ cases_data' = <<>>
    /\ batch_citation_map' = <<>>
    /\ line_pos' = 0
    /\ batch' = <<>>
    /\ batch_idx' = 0
    /\ txn_buf' = <<>>
    /\ pc' = "case_read"
    /\ UNCHANGED <<otherVarsOfCaselaw, primary_db, citations_db, reverse_citations_db,
                   metadata_db, progress_file, interrupts>>

(* the first run, or the run after an interrupt or an error *)
StartBuild ==
    /\ pc \in {"case_start", "case_killed", "case_failed"}
    /\ BeginRun
    /\ UNCHANGED probe

(* the four tables that the case-law builder writes *)
CaseStore == [primary |-> primary_db, citations |-> citations_db,
              reverse_citations |-> reverse_citations_db, metadata |-> metadata_db]

(* the build is run a second time, with resume enabled, after it completed *)
RunBuildAgain ==
    /\ pc = "case_done"
    /\ probe.kind # "second_run"
    /\ probe' = [kind |-> "second_run", n |-> interrupts, store |-> CaseStore]
    /\ BeginRun

(* the generator is advanced: the next batch, and the write transaction on
   primary.lmdb begins; or the generator is exhausted and the loop ends *)
ReadCasesInBatches ==
    /\ pc = "case_read"
    /\ LET r == ReadLoop(case_corpus, line_pos, processed_case_ids, <<>>)
       IN /\ line_pos' = r.pos
          /\ batch' = r.batch
          /\ batch_idx' = IF r.batch = <<>> THEN 0 ELSE 1
          /\ pc' = IF r.batch = <<>> THEN "case_metadata" ELSE "case_txn"
    /\ txn_buf' = <<>>
    /\ UNCHANGED <<probe, otherVarsOfCaselaw, primary_db, citations_db, reverse_citations_db,
                   metadata_db, cases_data, batch_citation_map, progress,
                   processed_case_ids, progress_file, interrupts>>

(* one iteration of `for case in batch`, inside the write transaction *)
ProcessCase ==
    /\ pc = "case_txn"
    /\ batch_idx <= Len(batch)
    /\ LET case == batch[batch_idx]
       IN IF case.id = 0    \* if not case_id: continue
          THEN UNCHANGED <<cases_data, batch_citation_map, txn_buf, progress,
                           processed_case_ids, progress_file>>
          ELSE /\ cases_data' = DictPut(cases_data, case.id, CaseData(case))
               /\ batch_citation_map' = PutCitations(batch_citation_map, case)
               /\ txn_buf' = DictPut(txn_buf, case.id, CaseData(case))
               /\ progress' = TrackProgress(progress, case.id)
               /\ processed_case_ids' = processed_case_ids \cup {case.id}
               /\ progress_file' = IF CaseCheckpointDue(progress')
                                   THEN _save_progress(progress', processed_case_ids')
                                   ELSE progress_file
    /\ batch_idx' = batch_idx + 1
    /\ UNCHANGED <<pc, probe, otherVarsOfCaselaw, primary_db, citations_db, reverse_citations_db,
                   metadata_db, line_pos, batch, interrupts>>

(* the `with self.primary_db.begin(write=True)` block ends: commit *)
CommitPrimary ==
    /\ pc = "case_txn"
    /\ batch_idx > Len(batch)
    /\ primary_db' = PutAll(primary_db, txn_buf)
    /\ txn_buf' = <<>>
    /\ pc' = "case_citations"
    /\ UNCHANGED <<probe, otherVarsOfCaselaw, citations_db, reverse_citations_db, metadata_db,
                   line_pos, batch, batch_idx, cases_data, batch_citation_map, progress,
                   processed_case_ids, progress_file, interrupts>>

(* _build_batch_citations: the transaction on citations.lmdb *)
BuildBatchCitations ==
    /\ pc = "case_citations"
    /\ citations_db' = PutAll(citations_db, BatchCitations(batch_citation_map))
    /\ progress' = [progress EXCEPT
                      !.citations_count = @ + Cardinality(DOMAIN batch_citation_map)]
    /\ pc' = "case_reverse"
    /\ UNCHANGED <<probe, otherVarsOfCaselaw, primary_db, reverse_citations_db, metadata_db,
                   line_pos, batch, batch_idx, txn_buf, cases_data, batch_citation_map,
                   processed_case_ids, progress_file, interrupts>>

(* _build_batch_citations: the transaction on reverse_citations.lmdb, and
   the clearing of the batch data *)
BuildBatchReverseCitations ==
    /\ pc = "case_reverse"
    /\ reverse_citations_db' = PutAll(reverse_citations_db,
                                      BatchReverseCitations(batch_citation_map))
    /\ progress' = [progress EXCEPT
                      !.reverse_citations_count =
                          @ + Cardinality(DOMAIN BatchReverseMap(batch_citation_map))]
    /\ cases_data' = <<>>
    /\ batch_citation_map' = <<>>
    /\ pc' = "case_read"
    /\ UNCHANGED <<probe, otherVarsOfCaselaw, primary_db, citations_db, metadata_db,
                   line_pos, batch, batch_idx, txn_buf, processed_case_ids, progress_file,
                   interrupts>>

(* build_metadata_database *)
BuildCaseMetadata ==
    /\ pc = "case_metadata"
    /\ metadata_db' = DictPut(metadata_db, CorpusInfoKey, CaseCorpusMeta(progress))
    /\ pc' = "case_final"
    /\ UNCHANGED <<probe, otherVarsOfCaselaw, primary_db, citations_db, reverse_citations_db,
                   caseVars, interrupts>>

(* the final checkpoint, then the progress file is removed *)
CompleteBuild ==
    /\ pc = "case_final"
    /\ progress_file' = NoFile
    /\ pc' = "case_done"
    /\ UNCHANGED <<probe, otherVarsOfCaselaw, dbVars, line_pos, batch, batch_idx, txn_buf,
                   cases_data, batch_citation_map, progress, processed_case_ids, interrupts>>

(* SIGINT: KeyboardInterrupt is raised in the main thread; it is not an
   Exception, so build_all saves no progress; an open write transaction is
   aborted and the memory of the process is gone *)
Interrupt ==
    /\ pc \in {"case_read", "case_txn", "case_citations", "case_reverse",
               "case_metadata", "case_final"}
    /\ interrupts < MaxInterrupts
    /\ interrupts' = interrupts + 1
    /\ txn_buf' = <<>>
    /\ cases_data' = <<>>
    /\ batch_citation_map' = <<>>
    /\ batch' = <<>>
    /\ batch_idx' = 0
    /\ line_pos' = 0
    /\ progress' = NoProgress
    /\ processed_case_ids' = {}
    /\ probe' = [kind |-> "interrupt", n |-> interrupts + 1, at |-> pc]
    /\ pc' = "case_killed"
    /\ UNCHANGED <<mapperVars, fileVars, builder, memVars, dbVars, runVars, readerVars, enable_enrichment, ckptVars, enricherVars,
                   case_corpus, progress_file>>

(* an exception inside build_primary_database or build_metadata_database (a
   full map, an I/O error): an open write transaction is aborted, build_all
   logs 'Build failed', saves the progress and raises again *)
RaiseError ==
    /\ pc \in {"case_read", "case_txn", "case_citations", "case_reverse",
               "case_metadata"}
    /\ interrupts < MaxInterrupts
    /\ interrupts' = interrupts + 1
    /\ progress_file' = _save_progress(progress, processed_case_ids)
    /\ txn_buf' = <<>>
    /\ cases_data' = <<>>
    /\ batch_citation_map' = <<>>
    /\ batch' = <<>>
    /\ batch_idx' = 0
    /\ line_pos' = 0
    /\ progress' = NoProgress
    /\ processed_case_ids' = {}
    /\ probe' = [kind |-> "error", n |-> interrupts + 1, at |-> pc]
    /\ pc' = "case_failed"
    /\ UNCHANGED <<mapperVars, fileVars, builder, memVars, dbVars, runVars, readerVars,
                   enable_enrichment, ckptVars, enricherVars, case_corpus>>

----------------------------------------------------------------------------
(* Actions of a caller of LegalChainRetriever.get_complete_context, with
   the default arguments.  Each get_* call is a read transaction of its own
   on one table. *)

readerFrame == <<pc, probe, mapperVars, fileVars, builder, enable_enrichment, memVars, dbVars,
                 runVars, caseVars, ckptVars, enricherVars, interrupts>>

(* section = self.get_section(section_number); None when it is not found *)
ReaderGetSection(section_number) ==
    /\ reader_pc = "idle"
    /\ reader_section' = section_number
    /\ IF get_section(primary_db, section_number) = NoValue
       THEN /\ context' = NoValue
            /\ reader_pc' = "returned"
       ELSE /\ context' = InitialContext(section_number,
                                         get_section(primary_db, section_number))
            /\ reader_pc' = "citations"
    /\ UNCHANGED readerFrame

(* citations = self.get_citations(section_number) and the loop over its rows *)
ReaderGetCitations ==
    /\ reader_pc = "citations"
    /\ context' = WithDirectCitations(context, get_citations(citations_db, reader_section),
                                      primary_db)
    /\ reader_pc' = "reverse"
    /\ UNCHANGED <<readerFrame, reader_section>>

(* reverse = self.get_reverse_citations(section_number) and the loop over its rows *)
ReaderGetReverseCitations ==
    /\ reader_pc = "reverse"
    /\ context' = WithReverseCitations(context,
                                       get_reverse_citations(reverse_citations_db,
                                                             reader_section),
                                       primary_db)
    /\ reader_pc' = "chain"
    /\ UNCHANGED <<readerFrame, reader_section>>

(* chain = self.get_chain(section_number); return context *)
ReaderGetChain ==
    /\ reader_pc = "chain"
    /\ context' = WithChain(context, get_chain(chains_db, reader_section), reader_section,
                            DefaultMaxChainDepth)
    /\ reader_pc' = "returned"
    /\ UNCHANGED <<readerFrame, reader_section>>

----------------------------------------------------------------------------
(* Specifications *)

NextBuild ==
    \/ LoadCitationData
    \/ BuildSectionsDatabase
    \/ BuildCitationsDatabase
    \/ BuildReverseCitationsDatabase
    \/ BuildChainsDatabase
    \/ BuildMetadataDatabase
    \/ CalculateInboundCounts

NextChains ==
    \/ \E s \in DOMAIN citation_map \cup Targets : CallBuildReferenceChain(s)
    \/ AnalyzeCitationPatterns
    \/ SaveResults
    \/ \E b \in {"admin", "constitution"} : BuildAll(b)
    \/ \E p \in DOMAIN primary_db : GetChain(p)

(* the mapper's analysis of a corpus followed by a build and a chain lookup *)
SpecChains == InitChains /\ [][NextChains]_vars

(* a build from a citation map and a corpus *)
SpecBuild == InitBuild /\ [][NextBuild]_vars

(* a build of a corpus with malformed lines and headers without a pipe *)
SpecIngest == InitIngest /\ [][NextBuild]_vars

----------------------------------------------------------------------------
(* The progress file of the case-law builder (_load_progress, _save_progress),
   of the citation mapper (_load_state, _save_state) and of the PDF converter
   (load_progress, save_progress) *)

notCkptVars == <<pc, enricherVars, mapperVars, fileVars, builder, enable_enrichment, memVars, dbVars,
                 runVars, caseVars, readerVars>>

(* the program renames a file it cannot parse to .backup *)
BacksUpCorruptFile(prog) == prog = "converter"

(* the program writes a temporary file and renames it over the progress file *)
WritesTempFile(prog) == prog = "converter"

(* load_progress / _load_progress / _load_state at the start of a run *)
LoadProgress ==
    /\ ck_pc = "start"
    /\ probe' = [kind |-> "load", n |-> 0, found |-> disk.progress]
    /\ IF disk.progress.kind = "complete"
       THEN /\ total_processed' = disk.progress.total_processed
            /\ UNCHANGED disk
       ELSE /\ total_processed' = 0
            /\ IF disk.progress.kind = "unparseable" /\ BacksUpCorruptFile(program)
               THEN \* PROGRESS_FILE.rename(backup_path)
                    disk' = [disk EXCEPT !.backup = disk.progress, !.progress = Absent]
               ELSE \* the exception is logged
                    UNCHANGED disk
    /\ ck_pc' = "loaded"
    /\ UNCHANGED <<program, interrupts, notCkptVars>>

(* one more item is processed *)
ProcessItem ==
    /\ ck_pc \in {"loaded", "running"}
    /\ total_processed < MaxProcessed
    /\ total_processed' = total_processed + 1
    /\ ck_pc' = "running"
    /\ UNCHANGED <<program, disk, probe, interrupts, notCkptVars>>

(* open(file, 'w'): the file exists and is empty *)
OpenForWrite ==
    /\ ck_pc = "running"
    /\ IF WritesTempFile(program)
       THEN disk' = [disk EXCEPT !.tmp = Unparseable]
       ELSE disk' = [disk EXCEPT !.progress = Unparseable]
    /\ ck_pc' = "opened"
    /\ UNCHANGED <<program, total_processed, probe, interrupts, notCkptVars>>

(* json.dump / pickle.dump and the close of the file *)
DumpRecord ==
    /\ ck_pc = "opened"
    /\ IF WritesTempFile(program)
       THEN /\ disk' = [disk EXCEPT !.tmp = Record(total_processed)]
            /\ ck_pc' = "dumped"
       ELSE /\ disk' = [disk EXCEPT !.progress = Record(total_processed)]
            /\ ck_pc' = "running"
    /\ UNCHANGED <<program, total_processed, probe, interrupts, notCkptVars>>

(* os.replace(temp_file, PROGRESS_FILE) *)
ReplaceFile ==
    /\ ck_pc = "dumped"
    /\ disk' = [disk EXCEPT !.progress = disk.tmp, !.tmp = Absent]
    /\ ck_pc' = "running"
    /\ UNCHANGED <<program, total_processed, probe, interrupts, notCkptVars>>

(* the process is killed or the machine crashes; the program is started again *)
Kill ==
    /\ ck_pc \in {"loaded", "running", "opened", "dumped"}
    /\ interrupts < MaxKills
    /\ interrupts' = interrupts + 1
    /\ total_processed' = 0
    /\ ck_pc' = "start"
    /\ probe' = [kind |-> "kill", n |-> 0, found |-> disk.progress]
    /\ UNCHANGED <<program, disk, notCkptVars>>

NextProgress ==
    \/ LoadProgress
    \/ ProcessItem
    \/ OpenForWrite
    \/ DumpRecord
    \/ ReplaceFile
    \/ Kill

SpecProgress == InitProgress /\ [][NextProgress]_vars

(* enrichment.complexity = self._calculate_complexity(...) *)
CalculateComplexity ==
    /\ pc = "complexity_start"
    /\ probe' = [probe EXCEPT !.kind = "complexity",
                               !.complexity = _calculate_complexity(probe.word_count,
                                                                    probe.paragraph_count,
                                                                    probe.citation_count)]
    /\ pc' = "complexity_done"
    /\ UNCHANGED <<mapperVars, fileVars, builder, enable_enrichment, memVars, dbVars,
                   runVars, caseVars, readerVars, ckptVars, enricherVars, interrupts>>

SpecComplexity == InitComplexity /\ [][CalculateComplexity]_vars

NextReader ==
    \/ NextBuild
    \/ \E section_number \in BuildTargets : ReaderGetSection(section_number)
    \/ ReaderGetCitations
    \/ ReaderGetReverseCitations
    \/ ReaderGetChain

(* a rebuild over an old store while a caller composes a bundle *)
SpecReader == InitReader /\ [][NextReader]_vars

NextMapper ==
    \/ StartMapping
    \/ SkipToResumePoint
    \/ ExtractSection
    \/ AdvanceLine
    \/ FinalSave
    \/ SignalHandler

(* build_citation_mapping on a corpus, a signal, and the resumed run *)
SpecMapper == InitMapper /\ [][NextMapper]_vars

NextCaselaw ==
    \/ StartBuild
    \/ ReadCasesInBatches
    \/ ProcessCase
    \/ CommitPrimary
    \/ BuildBatchCitations
    \/ BuildBatchReverseCitations
    \/ BuildCaseMetadata
    \/ CompleteBuild
    \/ Interrupt
    \/ RaiseError

(* a case-law build, an interrupt or an error, and the resumed build *)
SpecCaselaw == InitCaselaw /\ [][NextCaselaw]_vars

NextSecondRun ==
    \/ StartBuild
    \/ ReadCasesInBatches
    \/ ProcessCase
    \/ CommitPrimary
    \/ BuildBatchCitations
    \/ BuildBatchReverseCitations
    \/ BuildCaseMetadata
    \/ CompleteBuild
    \/ RunBuildAgain

(* a case-law build that completes, and a second run on the same input *)
SpecSecondRun == InitCaselaw /\ [][NextSecondRun]_vars

----------------------------------------------------------------------------
(* Properties of chain construction (SpecChains) *)

Min(a, b) == IF a < b THEN a ELSE b

(* The breadth-first expansion as the specification words it: pop the head,
   append it, enqueue up to the first k targets of it that are not yet
   visited; stop at max_size entries or on an empty queue. *)
RECURSIVE ClaimedBfs(_, _, _)
ClaimedBfs(fwd, chain, queue) ==
    IF queue = <<>> \/ Len(chain) >= DefaultMaxSize THEN chain
    ELSE LET head == Head(queue)
             unvisited == SelectSeq(DictGet(fwd, head, <<>>),
                                    LAMBDA x : x \notin Range(chain) \cup {head})
         IN IF head \in Range(chain) THEN ClaimedBfs(fwd, chain, Tail(queue))
            ELSE ClaimedBfs(fwd, Append(chain, head),
                            Tail(queue) \o Take(unvisited, ExpansionLimit))

(* The expansion as amended: of the first k targets of the popped section,
   those are enqueued that are not yet in the chain and are keys of the map. *)
RECURSIVE AmendedBfs(_, _, _)
AmendedBfs(fwd, chain, queue) ==
    IF queue = <<>> \/ Len(chain) >= DefaultMaxSize THEN chain
    ELSE LET head == Head(queue)
             targets == DictGet(fwd, head, <<>>)
             firstk == [i \in 1..Min(Len(targets), ExpansionLimit) |-> targets[i]]
             eligible == SelectSeq(firstk, LAMBDA x : /\ x \in DOMAIN fwd
                                                      /\ x # head
                                                      /\ x \notin Range(chain))
         IN IF head \in Range(chain) THEN AmendedBfs(fwd, chain, Tail(queue))
            ELSE AmendedBfs(fwd, Append(chain, head), Tail(queue) \o eligible)

ScenarioChain == <<1, 2, 3, 4, 5, 6, 7, 8>>

(* C4 as claimed: the chain built for any start section s equals the
   breadth-first expansion that enqueues up to the first k = 3 not-yet-visited
   targets of each popped section. *)
C4_ChainIsClaimedBfs ==
    probe.kind = "chain" => probe.chain = ClaimedBfs(citation_map, <<>>, <<probe.n>>)

(* C4 as amended: the chain built for any start section s equals the
   breadth-first expansion that, of the first k = 3 targets of each popped
   section, enqueues those not yet visited that are keys of the forward map;
   and the chain for A in the map of scenario 4 is [A,B,C,D,E,F,G,H]. *)
C4_ChainIsAmendedBfs ==
    probe.kind = "chain" =>
        /\ probe.chain = AmendedBfs(citation_map, <<>>, <<probe.n>>)
        /\ (citation_map = ScenarioMap /\ probe.n = 1 => probe.chain = ScenarioChain)

C4_Witness ==
    /\ probe.kind = "chain"
    /\ citation_map = HubMap
    /\ probe.n = 1
    /\ probe.chain = <<1, 2, 3>>

(* C5: every chain built, also from maps with cycles and self-citing
   sections, has at most max_size entries and no section id twice. *)
C5_ChainBoundedNoDuplicates ==
    /\ probe.kind = "chain" =>
          Len(probe.chain) <= DefaultMaxSize /\ NoDuplicates(probe.chain)
    /\ \A i \in 1..Len(complex_chains) :
          Len(complex_chains[i]) <= DefaultMaxSize /\ NoDuplicates(complex_chains[i])
    /\ \A i \in 1..Len(simple_pairs) :
          Len(simple_pairs[i]) <= DefaultMaxSize /\ NoDuplicates(simple_pairs[i])

(* a chain from a self-citing section inside a cycle, and one that the cap cut *)
C5_Witness ==
    /\ probe.kind = "chain"
    /\ \/ /\ citation_map = HubMap /\ probe.n = 1 /\ Len(probe.chain) = 3
       \/ /\ citation_map = ScenarioMap /\ probe.n = 1
          /\ Len(probe.chain) = DefaultMaxSize

RECURSIVE ReachableFrom(_, _)
(* the sections reachable from the set S by one or more forward citations *)
ReachableFrom(S, fwd) ==
    LET next == UNION {Range(DictGet(fwd, s, <<>>)) : s \in S}
        more == S \cup next
    IN IF more = S THEN next ELSE next \cup ReachableFrom(more, fwd)

ChainContained(rec) ==
    /\ rec.chain_sections[1] = rec.primary_section
    /\ \A i \in 2..Len(rec.chain_sections) :
          rec.chain_sections[i] \in ReachableFrom({rec.primary_section}, citation_map)

(* C6: for every chain with primary section p, chain_sections starts with p and
   every later entry is reachable from p by one or more forward citations. *)
C6_ChainContainment ==
    /\ pc = "saved" => \A j \in 1..Len(complex_chains_file.content) :
                          ChainContained(complex_chains_file.content[j])
    /\ pc = "done" => \A k \in DOMAIN chains_db : ChainContained(chains_db[k])

C6_Witness ==
    /\ pc = "done"
    /\ \E k \in DOMAIN chains_db : Len(chains_db[k].chain_sections) >= ComplexThreshold

(* C7: every chain of the chains table is stored under a chain_id equal to its
   primary section id, so get_chain(p) returns the chain whose primary section is p. *)
C7_ChainIdIsPrimarySection ==
    /\ \A k \in DOMAIN chains_db :
          /\ k = SectionKey(chains_db[k].primary_section)
          /\ chains_db[k].chain_id = k
    /\ probe.kind = "get_chain" =>
          ((\E k \in DOMAIN chains_db : chains_db[k].primary_section = probe.n)
              => probe.value # NoValue /\ probe.value.primary_section = probe.n)

HasChainInOutput(s) ==
    \E j \in 1..Len(complex_chains_file.content) :
        complex_chains_file.content[j].primary_section = s

QualifiesForChain(s) ==
    /\ citation_map[s] # <<>>
    /\ Len(_build_reference_chain(s, citation_map, DefaultMaxSize)) >= ComplexThreshold

(* C8 as claimed: the chains output has a chain with primary section s exactly
   when s has a forward citation and its chain has length >= 4. *)
C8_ChainOutputExactly ==
    pc = "saved" =>
        \A s \in DOMAIN citation_map : HasChainInOutput(s) <=> QualifiesForChain(s)

(* C8 as amended: the chains output has a chain with primary section s only if
   s has a forward citation and its chain has length >= 4; a section that
   meets both conditions has a chain of its own unless a chain built for an
   earlier section already contains it, and then it is a member of a chain of
   the output. *)
C8_ChainOutputOnlyIf ==
    pc = "saved" =>
        \A s \in DOMAIN citation_map :
            /\ HasChainInOutput(s) => QualifiesForChain(s)
            /\ QualifiesForChain(s) =>
                  \E j \in 1..Len(complex_chains_file.content) :
                      s \in Range(complex_chains_file.content[j].chain_sections)
            /\ QualifiesForChain(s) /\ ~HasChainInOutput(s) => s \in visited_global

C8_Witness ==
    /\ pc = "saved"
    /\ \E s \in DOMAIN citation_map : QualifiesForChain(s) /\ HasChainInOutput(s)
    /\ \E s \in DOMAIN citation_map : QualifiesForChain(s) /\ ~HasChainInOutput(s)

----------------------------------------------------------------------------
(* Properties of the built tables (SpecBuild) *)

AllBuildIds == BuildTargets

Cites(s, t) == s \in DOMAIN citations_db /\ t \in Range(citations_db[s].direct_references)

CitedBy(t, s) ==
    t \in DOMAIN reverse_citations_db /\ s \in Range(reverse_citations_db[t].cited_by)

(* C1: after a complete build, t is in citations[s].direct_references if and
   only if s is in reverse_citations[t].cited_by, for every pair (s, t). *)
C1_ReverseForwardSymmetry ==
    pc = "done" => \A s, t \in AllBuildIds : Cites(s, t) <=> CitedBy(t, s)

(* a target cited by two sections, one of them itself *)
C1_Witness ==
    /\ pc = "done"
    /\ \E s, t \in AllBuildIds : s # t /\ Cites(s, t) /\ Cites(t, t) /\ CitedBy(t, s)

(* C9: for every section of the primary table, is_clickable holds if and only
   if its forward citation count is greater than 0 or a reverse_citations entry
   exists for its id. *)
C9_ClickableIff ==
    pc = "done" /\ builder = "admin" =>
        \A s \in DOMAIN primary_db :
            primary_db[s].is_clickable <=>
                (primary_db[s].citation_count > 0 \/ s \in DOMAIN reverse_citations_db)

(* C10: a citation whose target has no entry in the primary table is kept: the
   target stays in direct_references of the source and has a references_details
   row whose title and url are empty. *)
C10_DanglingKept ==
    pc = "done" =>
        \A s \in DOMAIN b_citation_map :
            \A t \in Range(b_citation_map[s]) \ DOMAIN primary_db :
                /\ s \in DOMAIN citations_db
                /\ t \in Range(citations_db[s].direct_references)
                /\ \E i \in 1..Len(citations_db[s].references_details) :
                      /\ citations_db[s].references_details[i].section = t
                      /\ citations_db[s].references_details[i].title = <<>>
                      /\ citations_db[s].references_details[i].url = <<>>

----------------------------------------------------------------------------
(* Properties of the interrupted mapping (SpecMapper) *)

(* the forward references of the section on line i of the corpus *)
ReferencesOnLine(i) == extract_cross_references(input_file[i].text)

(* the checkpoint holds the references of every section up to its line *)
CheckpointComplete(state) ==
    \A i \in 1..state.last_processed_line :
        (input_file[i].json /\ input_file[i].header.has_section) =>
            /\ input_file[i].header.num \in DOMAIN state.partial_citation_map
            /\ state.partial_citation_map[input_file[i].header.num] = ReferencesOnLine(i)

(* C3: when a signal arrives during citation mapping, the section in
   progress completes before the process exits (the signal only sets a flag
   checked between sections), and the checkpoint written before the exit
   holds the forward references of every section on a line up to its
   last_processed_line. *)
C3_CooperativeSignal ==
    pc = "map_exited" =>
        /\ probe.at = "map_loop"
        /\ state_file.exists
        /\ CheckpointComplete(state_file.content)

----------------------------------------------------------------------------
(* Properties of the interrupted case-law build (SpecCaselaw) *)

RECURSIVE PrimaryOfBatch(_)
(* the records that a batch puts into primary.lmdb *)
PrimaryOfBatch(cases) ==
    IF cases = <<>> THEN <<>>
    ELSE LET case == cases[Len(cases)]
             rest == PrimaryOfBatch(SubSeq(cases, 1, Len(cases) - 1))
         IN IF case.id = 0 THEN rest ELSE DictPut(rest, case.id, CaseData(case))

RECURSIVE CitationMapOfBatch(_)
(* the citation map of a batch *)
CitationMapOfBatch(cases) ==
    IF cases = <<>> THEN <<>>
    ELSE LET case == cases[Len(cases)]
             rest == CitationMapOfBatch(SubSeq(cases, 1, Len(cases) - 1))
         IN IF case.id = 0 THEN rest ELSE PutCitations(rest, case)

RECURSIVE UninterruptedRun(_, _, _, _)
(* the three tables after the batches of one run from line pos + 1 on *)
UninterruptedRun(corpus, pos, processed, store) ==
    LET r == ReadLoop(corpus, pos, processed, <<>>)
        cmap == CitationMapOfBatch(r.batch)
    IN IF r.batch = <<>> THEN store
       ELSE UninterruptedRun(corpus, r.pos,
                processed \cup ({r.batch[j].id : j \in 1..Len(r.batch)} \ {0}),
                [primary |-> PutAll(store.primary, PrimaryOfBatch(r.batch)),
                 citations |-> PutAll(store.citations, BatchCitations(cmap)),
                 reverse_citations |-> PutAll(store.reverse_citations,
                                              BatchReverseCitations(cmap))])

(* the tables that one uninterrupted run on the corpus leaves *)
UninterruptedStore ==
    UninterruptedRun(case_corpus, 0, {},
                     [primary |-> <<>>, citations |-> <<>>, reverse_citations |-> <<>>])

FinalStore == [primary |-> primary_db, citations |-> citations_db,
               reverse_citations |-> reverse_citations_db]

(* a build that no interrupt hits leaves the tables of UninterruptedStore *)
UninterruptedBuildIsReference ==
    (pc = "case_done" /\ interrupts = 0) => FinalStore = UninterruptedStore

(* C2: a case-law build that is interrupted at any point and restarted with
   resume enabled on the same input ends with the same primary, citations
   and reverse_citations tables as one uninterrupted run; in particular the
   primary table has the same number of entries. *)
C2_ResumeEqualsUninterrupted ==
    pc = "case_done" =>
        /\ FinalStore = UninterruptedStore
        /\ Cardinality(DOMAIN primary_db) = Cardinality(DOMAIN UninterruptedStore.primary)

----------------------------------------------------------------------------
(* Properties of the retriever (SpecReader) *)

(* the store is the one a complete build left and no build step has run
   since: every read of a returned call saw this store *)
StoreQuiescent == pc = "saved"

(* the targets that section_number cites and that the primary table lacks *)
DanglingTargetsOf(section_number) ==
    IF section_number \in DOMAIN citations_db
    THEN {ref \in Range(citations_db[section_number].direct_references) :
             ref \notin DOMAIN primary_db}
    ELSE {}

(* C11: get_complete_context of a section that cites a target absent from
   the primary table returns a bundle whose direct citations include an
   entry for the dangling target id, with empty snapshot fields. *)
C11_DanglingTargetInBundle ==
    (StoreQuiescent /\ reader_pc = "returned" /\ context # NoValue) =>
        \A ref \in DanglingTargetsOf(reader_section) :
            \E i \in 1..Len(context.direct_citations) :
                /\ context.direct_citations[i].section = ref
                /\ context.direct_citations[i].title = <<>>
                /\ context.direct_citations[i].url = <<>>

----------------------------------------------------------------------------
(* Ingestion of the corpus file *)

(* build_sections_database has ended, with a commit or with an exception *)
SectionsPassEnded == pc \notin {"saved", "loaded"}

(* the lines of the corpus file that parse as JSON *)
WellFormedLines == {i \in 1..Len(corpus_file) : corpus_file[i].json}

(* C12: for every section stored, with enrichment enabled or disabled, the
   paragraphs value in the primary table equals the paragraphs array of the
   input record *)
C12_ParagraphsPreserved ==
    \A s \in DOMAIN primary_db :
        \A i \in WellFormedLines :
            corpus_file[i].header.num = s
                => primary_db[s].paragraphs = corpus_file[i].paragraphs

(* an enriched section with a paragraph is in the primary table *)
C12_EnrichedSectionStored ==
    /\ enable_enrichment
    /\ builder = "admin"
    /\ \E s \in DOMAIN primary_db :
          /\ "enrichment" \in DOMAIN primary_db[s]
          /\ primary_db[s].paragraphs # <<>>

(* C13: an input line that fails JSON parsing never aborts the pass: every
   well-formed record on a later line is still ingested *)
C13_MalformedLineSkipped ==
    SectionsPassEnded =>
        \A j \in WellFormedLines :
            (/\ corpus_file[j].header.has_pipe
             /\ \E i \in 1..(j - 1) : ~corpus_file[i].json)
                => corpus_file[j].header.num \in DOMAIN primary_db

(* C14: a record whose header has no pipe delimiter is stored with an empty
   title, and its enrichment summary is the whole header *)
C14_NoPipeStoredWithEmptyTitle ==
    (SectionsPassEnded /\ ~SectionsRaises(corpus_file)) =>
        \A i \in WellFormedLines :
            ~corpus_file[i].header.has_pipe =>
                \E s \in DOMAIN primary_db :
                    /\ primary_db[s].header = corpus_file[i].header
                    /\ primary_db[s].section_title = <<>>
                    /\ enable_enrichment =>
                          primary_db[s].enrichment.summary =
                              [prefix |-> "", text |-> corpus_file[i].header]

----------------------------------------------------------------------------
(* The progress file *)

(* C15: when the progress file exists but cannot be parsed, it is renamed to
   a .backup file and the run restarts fresh *)
C15_CorruptProgressBackedUp ==
    (ck_pc = "loaded" /\ probe.found.kind = "unparseable") =>
        /\ disk.backup = probe.found
        /\ disk.progress = Absent
        /\ total_processed = 0

(* C16: every step leaves the progress file as it is or replaces it by a
   complete record, or renames it away; no step leaves a partial record *)
C16_ProgressReplacedAtomically ==
    [][disk'.progress # disk.progress => disk'.progress.kind # "unparseable"]_vars

----------------------------------------------------------------------------
(* Readers during a rebuild *)

(* the states of the store during the rebuild: the old store after the
   first n table commits of build_all *)
StoreStates ==
    {StoreAfter(n, builder, OldStore(builder), citation_map_file, complex_chains_file,
                citation_contexts_file, corpus_file) : n \in 0..4}

(* C17: a bundle composed by get_complete_context while a rebuild commits
   table writes is the bundle of one state of the store *)
C17_BundleOfOneSnapshot ==
    reader_pc = "returned" =>
        \E store \in StoreStates : context = get_complete_context(store, reader_section)

----------------------------------------------------------------------------
(* The complexity score *)

(* C20: for all word counts w, paragraph counts p and citation counts c the
   complexity is 5, plus 2 if w > 1000 else plus 1 if w > 500 else minus 1 if
   w < 100, plus 2 if p > 15 else plus 1 if p > 10, plus 2 if c > 10 else
   plus 1 if c > 5 else minus 1 if c = 0, clamped to 1..10 *)
C20_ComplexityFormula ==
    pc = "complexity_done" =>
        LET w == probe.word_count
            p == probe.paragraph_count
            c == probe.citation_count
            sum == 5 + (CASE w > 1000 -> 2 [] w > 500 /\ w <= 1000 -> 1
                          [] w < 100 -> -1 [] OTHER -> 0)
                     + (CASE p > 15 -> 2 [] p > 10 /\ p <= 15 -> 1 [] OTHER -> 0)
                     + (CASE c > 10 -> 2 [] c > 5 /\ c <= 10 -> 1
                          [] c = 0 -> -1 [] OTHER -> 0)
        IN /\ probe.complexity = (IF sum < 1 THEN 1 ELSE IF sum > 10 THEN 10 ELSE sum)
           /\ probe.complexity \in 1..10

(* the score of a long section with many paragraphs and citations is clamped *)
C20_ScoreClamped ==
    /\ pc = "complexity_done"
    /\ probe.word_count > 1000
    /\ probe.paragraph_count > 15
    /\ probe.citation_count > 10
    /\ probe.complexity = 10

----------------------------------------------------------------------------
(* Runs of the case-law build *)

(* C18: a second run with resume enabled after a completed build, both runs
   uninterrupted, leaves every table with the keys and values of the single
   run *)
C18_SecondRunChangesNothing ==
    (pc = "case_done" /\ probe.kind = "second_run" /\ interrupts = 0) =>
        CaseStore = probe.store

(* a second run has completed on a store with cases and reverse citations *)
C18_SecondRunCompleted ==
    /\ pc = "case_done"
    /\ probe.kind = "second_run"
    /\ interrupts = 0
    /\ Cardinality(DOMAIN primary_db) > BATCH_SIZE
    /\ reverse_citations_db # <<>>

(* C19: after a build run ends, the progress file exists if and only if the
   run did not complete cleanly *)
C19_ProgressFileIffUnclean ==
    pc \in {"case_done", "case_killed", "case_failed"} =>
        (progress_file.exists <=> pc # "case_done")

----------------------------------------------------------------------------
(* Sections without text *)

(* the lowest value of the complexity scale: max(1, ...) *)
MinComplexity == 1

(* C21: a record with an empty paragraphs array is stored in the primary
   table with word_count = 0 and with the minimum complexity *)
C21_EmptySectionMinimumComplexity ==
    (SectionsPassEnded /\ enable_enrichment /\ ~SectionsRaises(corpus_file)) =>
        \A i \in WellFormedLines :
            (corpus_file[i].header.has_pipe /\ corpus_file[i].paragraphs = <<>>) =>
                /\ corpus_file[i].header.num \in DOMAIN primary_db
                /\ primary_db[corpus_file[i].header.num].word_count = 0
                /\ primary_db[corpus_file[i].header.num].enrichment.complexity
                      = MinComplexity

----------------------------------------------------------------------------
(* Queries of the store *)

(* the cited_by_count values of the rows of a table or of a result *)
CountsOf(items) == [i \in 1..Len(items) |-> items[i].cited_by_count]

(* all rows of the reverse citations table, highest count first *)
AllReverseRows ==
    LET keys == SortedSeq(DOMAIN reverse_citations_db)
    IN SortByCount([i \in 1..Len(keys) |-> reverse_citations_db[keys[i]]])

(* C22: most_cited(limit) returns at most limit entries in non-increasing
   order of cited_by_count, and they are the entries with the limit highest
   cited_by_count values among all entries of the reverse_citations table *)
C22_MostCitedIsTopOfTable ==
    (pc = "queried" /\ probe.kind = "most_cited") =>
        /\ Len(probe.value) <= probe.n
        /\ \A i \in 1..(Len(probe.value) - 1) :
              probe.value[i].cited_by_count >= probe.value[i + 1].cited_by_count
        /\ CountsOf(probe.value) = CountsOf(Take(AllReverseRows, probe.n))

(* C23: related_sections(id, max) returns at most max/2 forward neighbours,
   each labelled cited_by_primary, merged with at most max/2 reverse
   neighbours, each labelled cites_primary *)
C23_RelatedHalfAndHalf ==
    (pc = "queried" /\ probe.kind = "related") =>
        LET forward == SelectSeq(probe.value,
                                 LAMBDA r : r.relationship = "cited_by_primary")
            backward == SelectSeq(probe.value,
                                  LAMBDA r : r.relationship = "cites_primary")
        IN /\ Len(forward) + Len(backward) = Len(probe.value)
           /\ 2 * Len(forward) <= probe.max_related
           /\ 2 * Len(backward) <= probe.max_related
           /\ \A i \in 1..Len(forward) :
                 forward[i].section \in Range(citations_db[probe.n].direct_references)
           /\ \A i \in 1..Len(backward) :
                 backward[i].section \in Range(reverse_citations_db[probe.n].cited_by)

(* the sections of a bundle: the primary, the direct citations and the
   entries of the chain *)
BundleSections(bundle) ==
    {bundle.primary_section.section}
        \cup {bundle.direct_citations[i].section : i \in 1..Len(bundle.direct_citations)}
        \cup {bundle.citation_chain[i].section : i \in 1..Len(bundle.citation_chain)}

RECURSIVE SumOver(_, _)
SumOver(S, f) ==
    IF S = {} THEN 0
    ELSE LET x == CHOOSE x \in S : TRUE IN f[x] + SumOver(S \ {x}, f)

(* C30: total_context_words of a bundle is the sum of word_count over the
   distinct sections included, each counted once *)
C30_TotalWordsCountsEachSectionOnce ==
    (pc = "queried" /\ probe.kind = "context" /\ probe.value # NoValue) =>
        probe.value.total_context_words =
            SumOver(BundleSections(probe.value),
                    [s \in BundleSections(probe.value) |-> primary_db[s].word_count])

----------------------------------------------------------------------------
(* Checkpoints, batches and counts of the case-law build *)

(* the ids of the corpus whose case has a cites_to list *)
IdsWithCitations ==
    {case_corpus[i].id : i \in {j \in 1..Len(case_corpus) :
                                  /\ case_corpus[j].kind = "case"
                                  /\ case_corpus[j].id # 0
                                  /\ case_corpus[j].cites_to # <<>>}}

(* C24: whenever the progress record is on disk, every id of its processed
   set has its primary record and its citations record committed *)
C24_ProcessedOnlyAfterCommits ==
    progress_file.exists =>
        \A id \in progress_file.content.processed_ids :
            /\ id \in DOMAIN primary_db
            /\ id \in IdsWithCitations => id \in DOMAIN citations_db

(* C25: between the batches of a build, the reverse citations row of t lists
   every case of the citations table that cites t *)
C25_LaterBatchKeepsCitingCases ==
    (pc = "case_read" /\ interrupts = 0) =>
        \A c \in DOMAIN citations_db :
            \A t \in Range(citations_db[c].cites_to) :
                /\ t \in DOMAIN reverse_citations_db
                /\ c \in Range(reverse_citations_db[t].cited_by)

(* C28: after a build, each count under corpus_info is the number of
   entries of its table *)
C28_CountsMatchTables ==
    pc = "case_done" =>
        /\ metadata_db[CorpusInfoKey].total_cases = Cardinality(DOMAIN primary_db)
        /\ metadata_db[CorpusInfoKey].cases_with_citations
              = Cardinality(DOMAIN citations_db)
        /\ metadata_db[CorpusInfoKey].reverse_citations
              = Cardinality(DOMAIN reverse_citations_db)

----------------------------------------------------------------------------
(* Order and atomicity of the table writes *)

(* the cases of the corpus that cite case t *)
CitingCasesOf(t) ==
    {case_corpus[i].id : i \in {j \in 1..Len(case_corpus) :
                                  /\ case_corpus[j].kind = "case"
                                  /\ case_corpus[j].id # 0
                                  /\ t \in Range(case_corpus[j].cites_to)}}

(* C26: no record is committed to the primary table before the reverse
   adjacency that covers its inbound citations has been computed *)
C26_ReverseAdjacencyBeforePrimary ==
    interrupts = 0 =>
        \A t \in DOMAIN primary_db :
            CitingCasesOf(t) # {} =>
                /\ t \in DOMAIN reverse_citations_db
                /\ CitingCasesOf(t) \subseteq Range(reverse_citations_db[t].cited_by)

(* C27: after a successful build every key of the citations table is a key
   of the primary table *)
C27_CitationsKeysInPrimary ==
    pc = "done" => DOMAIN citations_db \subseteq DOMAIN primary_db

(* C29: whenever the state file of the question-answer enricher is written,
   every document whose hash is in the saved processed_hashes has its QA
   pairs in the output file already. *)
C29_SavedHashesAreWritten ==
    processing_state_file.exists =>
        processing_state_file.content.processed_hashes \subseteq Range(training_qa_file)

====
